---- MODULE Spec2Model ----
(***************************************************************************)
(* citehound: the batched relationship committer (batchprocess.py) and the *)
(* probabilistic set linker (CitehoundManager.link_sets_of_entities).      *)
(*                                                                         *)
(* The graph store (neomodel.db) is an external collaborator: each of its  *)
(* calls (begin, an item's connect, commit) either succeeds or raises, and *)
(* only a commit makes the writes of the open transaction durable.         *)
(***************************************************************************)
EXTENDS Integers, Sequences, FiniteSets, TLC

\* ---------------------------------------------------------------- bounds
\* Items ever handed to one OGMTransactionBatch.
MaxItems == 4
\* Calls of OGMTransactionBatch.apply in one behaviour.
MaxApplies == 3
\* Largest batch_size a batch is constructed with (the smallest is -1).
MaxBatchSize == 2
\* Longest list handed to extend_batch.
MaxExtend == 2
\* Rows the LEFT and the RIGHT query of a linking pass return at most.
MaxLeft == 3
MaxRight == 3
\* The linking pass flushes every 1000 RIGHT records (__init__.py line 231) into
\* transactions of 1024 items (line 227); the model scales both down so that a
\* periodic flush and a short last chunk happen within MaxRight records.
FlushEvery == 2
LinkBatchSize == 3
\* Yearly MeSH descriptor files handed to one preprocess run, and the latest
\* year one of them is of (years are counted from 1).
MaxSnapshots == 3
MaxYear == 4

VARIABLES
    batch_size,     \* OGMTransactionBatch.batch_size
    batch,          \* OGMTransactionBatch._batch
    committed,      \* the store: items whose transaction was committed, in order
    log,            \* history: store calls that succeeded in the last direct apply()
    outcome,        \* how the last apply() ended: "none", "ok", "raised"
    failure,        \* the store call that raised in the last apply(), or NoFailure
    lastOp,         \* history: the method called last
    lastBatch,      \* history: _batch when the last apply() was entered
    lastCommitted,  \* history: Len(committed) when the last apply() was entered
    lastAdded,      \* history: the two counters below when apply() was entered
    addedSinceCall, \* history: items added since the last apply() call
    addedSinceOk,   \* history: items added since the last apply() that returned
    nextId,         \* identity of the next item object
    applies,        \* apply() calls so far
    \* link_sets_of_entities: its arguments and the two query results
    dictLEFT,       \* keys of the LEFT rows, in row order
    dictRIGHT,      \* keys of the RIGHT rows, in row order
    leftCols,       \* node columns of a LEFT row
    rightCols,      \* node columns of a RIGHT row
    perc_entries_right,      \* in percent
    comparison_cutoff,       \* in percent
    pre_processing_function, \* "none" or "lower"
    session_id,
    relationship_label,
    \* link_sets_of_entities: its locals
    pc,             \* "idle", "query", "loop", "done", "raised"
    k,              \* RIGHT records entered so far
    trimmed_lengths,
    all_trimmed_items_left,
    link_error,     \* what a raised pass raised
    emitted,        \* history: every instruction handed to add_item, in order
    attempts,       \* history: every get_close_matches call, in order
    flushes,        \* history: every batched_links.apply() call, in order
    \* the MeSH preprocessing (cmeshprep.preprocess, read_archive of mesh.py)
    xml_input_files,     \* the years of the descriptor files, in file order
    file_index,          \* files folded so far
    previous_year,       \* the snapshot of the file folded last
    current_master_tree, \* DUI -> its record with the temporal fields
    mesh_pc,             \* "idle", "fold", "saved", "raised"
    mesh_error,          \* what a raised fold raised
    ingested,            \* history: the snapshots folded, in file order
    \* the MeSH commit (MeSHLongitudinalDataItemInsert.on_end_extract), which
    \* reads its tree, _current_master_tree, from current_master_tree
    store_nodes,         \* the store: its MeSH term and alias nodes
    store_edges,         \* the store: the relationships between them
    store_tx,            \* the store: the writes of the open transaction
    store_calls,         \* history: the store calls that returned, in order
    commit_pc,           \* "idle", "nodes", "edges", "done", "raised"
    commit_error,        \* what a raised commit raised
    \* a plugin (PluginBase) with one user property
    cm_object,           \* _cm_object: "CM", or None
    prop_class,          \* the class of the property's descriptor
    max_length,          \* _max_length of a PluginPropertyString, or None
    default_value,       \* _default_value of the descriptor, or None
    prop_value,          \* the private attribute the descriptor reads and writes
    plugin_op,           \* the operation done last: its name, argument, outcome
    hooks,               \* history: the process hooks the last call ran, in order
    assigned,            \* history: an assignment succeeded since __init__/reset()
    plugin_steps,        \* operations done so far
    \* a data item reader with BaseDataItemBatchReaderMixin
    reader_batch_size,   \* _batch_size
    reader_batch,        \* _batch
    extracted,           \* items handed to on_dataitem_extract so far (1, 2, ...)
    ready,               \* history: every on_batch_ready call, in order
    reader_pc            \* "idle", "reading", "ended"

batchVars == <<batch_size, batch, committed, log, outcome, failure, lastOp,
               lastBatch, lastCommitted, lastAdded, addedSinceCall, addedSinceOk,
               nextId, applies>>

linkArgs == <<dictLEFT, dictRIGHT, leftCols, rightCols, perc_entries_right,
              comparison_cutoff, pre_processing_function, session_id,
              relationship_label>>

linkLocals == <<pc, k, trimmed_lengths, all_trimmed_items_left, link_error,
                emitted, attempts, flushes>>

foldVars == <<xml_input_files, file_index, previous_year, current_master_tree,
              mesh_pc, mesh_error, ingested>>

commitVars == <<store_nodes, store_edges, store_tx, store_calls, commit_pc,
                commit_error>>

meshVars == <<foldVars, commitVars>>

pluginVars == <<cm_object, prop_class, max_length, default_value, prop_value,
                plugin_op, hooks, assigned, plugin_steps>>

readerVars == <<reader_batch_size, reader_batch, extracted, ready, reader_pc>>

vars == <<batchVars, linkArgs, linkLocals, meshVars, pluginVars, readerVars>>

\* ---------------------------------------------------------------- helpers
RECURSIVE SumSeq(_)
SumSeq(s) == IF s = <<>> THEN 0 ELSE Head(s) + SumSeq(Tail(s))

RECURSIVE Flatten(_)
Flatten(ss) == IF ss = <<>> THEN <<>> ELSE Head(ss) \o Flatten(Tail(ss))

Min(a, b) == IF a <= b THEN a ELSE b

\* Python's s[lo:hi] for 0 <= lo, on a 1-based sequence.
Slice(s, lo, hi) == SubSeq(s, lo + 1, Min(hi, Len(s)))

\* list(range(0, n, step)) for step > 0.
RangeStep(n, step) == [i \in 1..((n + step - 1) \div step) |-> (i - 1) * step]

NoFailure == [op |-> "none", chunk |-> 0]

\* ------------------------------------------------- strings
\* A string is a sequence of one-character strings.
Separators == {",", ";", "."}
Spaces == {" "}

\* Code point order of the characters used.
CharOrd(c) ==
    CASE c = " " -> 32 [] c = "," -> 44 [] c = "." -> 46 [] c = ";" -> 59
      [] c = "A" -> 65 [] c = "a" -> 97 [] c = "b" -> 98
      [] c = "d" -> 100 [] c = "g" -> 103 [] c = "i" -> 105 [] c = "k" -> 107
      [] c = "l" -> 108 [] c = "m" -> 109 [] c = "n" -> 110 [] c = "o" -> 111

\* Python's x < y on str.
RECURSIVE StrLess(_, _)
StrLess(x, y) ==
    IF y = <<>> THEN FALSE
    ELSE IF x = <<>> THEN TRUE
    ELSE IF Head(x) = Head(y) THEN StrLess(Tail(x), Tail(y))
    ELSE CharOrd(Head(x)) < CharOrd(Head(y))

\* str.lower()
Lower(x) == [i \in 1..Len(x) |-> IF x[i] = "A" THEN "a" ELSE x[i]]

\* ------------------------------------------------- length blocking
\* collections.Counter(map(len, keys)).items(): (length, count) pairs in the
\* order the lengths first occur in keys.
LengthCounter(keys) ==
    LET lens == [i \in 1..Len(keys) |-> Len(keys[i])]
        first == {i \in 1..Len(lens) : \A j \in 1..(i - 1) : lens[j] # lens[i]}
        RECURSIVE Items(_)
        Items(i) ==
            IF i > Len(lens) THEN <<>>
            ELSE IF i \in first
                 THEN <<[len |-> lens[i],
                         count |-> Cardinality({j \in 1..Len(lens) : lens[j] = lens[i]})]>>
                      \o Items(i + 1)
                 ELSE Items(i + 1)
    IN  Items(1)

\* sorted(items, key=count, reverse=True): stable, so equal counts keep the
\* order of items.
RECURSIVE SortByCountDesc(_)
SortByCountDesc(items) ==
    IF items = <<>> THEN <<>>
    ELSE LET top == CHOOSE i \in 1..Len(items) :
                        /\ \A j \in 1..Len(items) : items[j].count <= items[i].count
                        /\ \A j \in 1..(i - 1) : items[j].count < items[i].count
         IN  <<items[top]>>
             \o SortByCountDesc(SubSeq(items, 1, top - 1)
                                \o SubSeq(items, top + 1, Len(items)))

\* all_items_left_histogram, line 206.
Histogram(keys) == SortByCountDesc(LengthCounter(keys))

\* cumsum[m] * max_sum for the 0-based m of lines 211-215, in whole counts.
CumCount(hist, m) == SumSeq([i \in 1..(m + 1) |-> hist[i].count])

\* Lines 217-220: the m the while loop stops at; perc is in percent, so
\* cumsum[m] <= perc is CumCount * 100 <= perc * max_sum.
RECURSIVE TrimIndex(_, _, _)
TrimIndex(hist, perc, m) ==
    LET max_sum == SumSeq([i \in 1..Len(hist) |-> hist[i].count])
        cumsum_len == Len(hist) - 1
    IN  IF CumCount(hist, m) * 100 <= perc * max_sum /\ m < cumsum_len
        THEN TrimIndex(hist, perc, m + 1)
        ELSE m

\* Mutant of TrimmedLengths: the least common lengths are kept.
TrimmedLengths_Tail(keys, perc) ==
    LET hist == Histogram(keys)
        m == TrimIndex(hist, perc, 0)
    IN  [i \in 1..(Len(hist) - m) |-> hist[m + i].len]

\* trimmed_lengths, line 222, for a non-empty list of keys.
TrimmedLengths(keys, perc) ==
    LET hist == Histogram(keys)
        m == TrimIndex(hist, perc, 0)
    IN  [i \in 1..m |-> hist[i].len]

Range(s) == {s[i] : i \in 1..Len(s)}

\* filter(pred, s), in order.
RECURSIVE SelectSeq2(_, _)
SelectSeq2(s, keep) ==
    IF s = <<>> THEN <<>>
    ELSE IF Head(s) \in keep THEN <<Head(s)>> \o SelectSeq2(Tail(s), keep)
    ELSE SelectSeq2(Tail(s), keep)

\* all_trimmed_items_left, lines 223-224: the keys whose length was kept.
TrimmedKeys(keys, lengths) ==
    SelectSeq2(keys, {x \in Range(keys) : Len(x) \in Range(lengths)})

\* ------------------------------------------------- tokens and fuzzy matching
\* re.compile("\s*(,|;|\.)\s*").split(x), line 197 and 243: the text between
\* separators, without the white space that touches a separator, and, the
\* group being a capturing one, every separator as a token of its own.
RECURSIVE SplitTokens(_)
SplitTokens(x) ==
    LET seps == {i \in 1..Len(x) : x[i] \in Separators}
    IN  IF seps = {} THEN <<x>>
        ELSE LET i == CHOOSE q \in seps : \A r \in seps : q <= r
                 \* the match starts at the white space that leads to the separator
                 lo == CHOOSE q \in 1..i :
                         /\ \A r \in q..(i - 1) : x[r] \in Spaces
                         /\ (q > 1 => x[q - 1] \notin Spaces)
                 \* and takes the white space that follows it
                 hi == CHOOSE q \in i..Len(x) :
                         /\ \A r \in (i + 1)..q : x[r] \in Spaces
                         /\ (q < Len(x) => x[q + 1] \notin Spaces)
             IN  <<SubSeq(x, 1, lo - 1), <<x[i]>>>>
                 \o SplitTokens(SubSeq(x, hi + 1, Len(x)))

\* difflib.SequenceMatcher.find_longest_match without junk: the longest block
\* a[i..i+k-1] = b[j..j+k-1], the earliest in a, then the earliest in b.
LongestMatch(a, b) ==
    LET blocks == {t \in (1..Len(a)) \X (1..Len(b)) \X (1..Min(Len(a), Len(b))) :
                      /\ t[1] + t[3] - 1 <= Len(a)
                      /\ t[2] + t[3] - 1 <= Len(b)
                      /\ SubSeq(a, t[1], t[1] + t[3] - 1) = SubSeq(b, t[2], t[2] + t[3] - 1)}
    IN  IF blocks = {} THEN <<1, 1, 0>>
        ELSE CHOOSE t \in blocks : \A u \in blocks :
                \/ u[3] < t[3]
                \/ (u[3] = t[3] /\ t[1] < u[1])
                \/ (u[3] = t[3] /\ t[1] = u[1] /\ t[2] <= u[2])

\* The number of matched characters, get_matching_blocks: the longest block,
\* then the same to its left and to its right.
RECURSIVE Matches(_, _)
Matches(a, b) ==
    IF a = <<>> \/ b = <<>> THEN 0
    ELSE LET t == LongestMatch(a, b)
         IN  IF t[3] = 0 THEN 0
             ELSE t[3]
                  + Matches(SubSeq(a, 1, t[1] - 1), SubSeq(b, 1, t[2] - 1))
                  + Matches(SubSeq(a, t[1] + t[3], Len(a)), SubSeq(b, t[2] + t[3], Len(b)))

\* SequenceMatcher(None, x, word).ratio() >= cutoff, the cutoff in percent and
\* m the matched characters: ratio is 2 * m / (len(x) + len(word)), and 1.0
\* for two empty strings.
RatioAtLeast(x, m, word, cutoff) ==
    IF Len(x) + Len(word) = 0 THEN 100 >= cutoff
    ELSE 2 * m * 100 >= cutoff * (Len(x) + Len(word))

\* (ratio(x), x) > (ratio(y), y) as Python compares the tuples; a candidate is
\* [x, m]: the string and its matched characters with word.
ScoredAbove(cx, cy, word) ==
    LET nx == 2 * cx.m * (Len(cy.x) + Len(word))
        ny == 2 * cy.m * (Len(cx.x) + Len(word))
    IN  nx > ny \/ (nx = ny /\ StrLess(cy.x, cx.x))

\* heapq.nlargest(n, result): the n best of a set of candidates, best first.
RECURSIVE NLargest(_, _, _)
NLargest(n, cands, word) ==
    IF n = 0 \/ cands = {} THEN <<>>
    ELSE LET best == CHOOSE cx \in cands :
                        \A cy \in cands \ {cx} : ScoredAbove(cx, cy, word)
         IN  <<best.x>> \o NLargest(n - 1, cands \ {best}, word)

\* difflib.get_close_matches(word, possibilities, n=3, cutoff), line 250.
get_close_matches(word, possibilities, cutoff) ==
    LET scored == {[x |-> x, m |-> Matches(x, word)] : x \in Range(possibilities)}
        result == {c \in scored : RatioAtLeast(c.x, c.m, word, cutoff)}
    IN  NLargest(3, result, word)

\* difflib.get_close_matches raises ValueError("cutoff must be in [0.0, 1.0]")
\* before it looks at word or possibilities; the cutoff is in percent.
CutoffAccepted(cutoff) == 0 <= cutoff /\ cutoff <= 100

\* ------------------------------------------------- OGMTransactionBatch
\* Mutant of Batches: the last chunk starts one item late.
Batches_LastChunkLate(b, bs) ==
    LET chunk_indexes == RangeStep(Len(b), bs)
        last == chunk_indexes[Len(chunk_indexes)]
    IN  [c \in 1..(Len(chunk_indexes) - 1) |->
            Slice(b, chunk_indexes[c], chunk_indexes[c] + bs)]
        \o <<Slice(b, last + 1, Len(b))>>

\* apply(), lines 54-56: the chunks of a non-empty buffer.
Batches(b, bs) ==
    LET chunk_indexes == RangeStep(Len(b), bs)
        last == chunk_indexes[Len(chunk_indexes)]
    IN  [c \in 1..(Len(chunk_indexes) - 1) |->
            Slice(b, chunk_indexes[c], chunk_indexes[c] + bs)]
        \o <<Slice(b, last, Len(b))>>

\* The store calls one chunk makes, lines 58-61.
ChunkOps(a_batch, c) ==
    <<[op |-> "begin", chunk |-> c, item |-> 0]>>
    \o [i \in 1..Len(a_batch) |-> [op |-> "apply", chunk |-> c, item |-> a_batch[i]]]
    \o <<[op |-> "commit", chunk |-> c, item |-> 0]>>

\* The store calls of the whole loop, lines 57-61, in program order.
ApplyOps(batches) == Flatten([c \in 1..Len(batches) |-> ChunkOps(batches[c], c)])

\* Items made durable by a prefix of store calls: those of every chunk whose
\* commit is in the prefix.
CommittedBy(ops) ==
    LET done == {ops[p].chunk : p \in {q \in 1..Len(ops) : ops[q].op = "commit"}}
        idx == {p \in 1..Len(ops) : ops[p].op = "apply" /\ ops[p].chunk \in done}
        RECURSIVE Pick(_)
        Pick(p) == IF p > Len(ops) THEN <<>>
                   ELSE IF p \in idx THEN <<ops[p].item>> \o Pick(p + 1)
                   ELSE Pick(p + 1)
    IN  Pick(1)

\* Mutant of Propagate: the failure is swallowed.
Propagate_Swallowed(f) == "ok"

\* What the caller of apply() sees when store call f raises (f = 0: none does).
Propagate(f) == IF f = 0 THEN "ok" ELSE "raised"

\* Mutant of BatchAfterApply: the buffer is cleared whether or not a call raised.
BatchAfterApply_Cleared(b, f) == <<>>

\* Mutant of BatchAfterApply: the buffer is never cleared.
BatchAfterApply_Kept(b, f) == b

\* _batch after apply(): line 62 runs only when the loop ran to its end.
BatchAfterApply(b, f) == IF f = 0 THEN <<>> ELSE b

\* Python's None as a property value.
NoneValue == [t |-> "none", n |-> 0, file |-> FALSE]

\* No plugin is in use.
PluginIdle ==
    /\ cm_object = "None"
    /\ prop_class = "none"
    /\ max_length = -1
    /\ default_value = NoneValue
    /\ prop_value = NoneValue
    /\ plugin_op = [name |-> "none", arg |-> NoneValue, outcome |-> "none"]
    /\ hooks = <<>>
    /\ assigned = FALSE
    /\ plugin_steps = 0

\* No batched reader is in use.
ReaderIdle ==
    /\ reader_batch_size = 0
    /\ reader_batch = <<>>
    /\ extracted = 0
    /\ ready = <<>>
    /\ reader_pc = "idle"

\* No MeSH commit is under way.
CommitIdle ==
    /\ store_nodes = {}
    /\ store_edges = {}
    /\ store_tx = {}
    /\ store_calls = <<>>
    /\ commit_pc = "idle"
    /\ commit_error = "none"

\* No MeSH preprocessing and no MeSH commit is under way.
MeshIdle ==
    /\ xml_input_files = <<>>
    /\ file_index = 0
    /\ previous_year = <<>>
    /\ current_master_tree = <<>>
    /\ mesh_pc = "idle"
    /\ mesh_error = "none"
    /\ ingested = <<>>
    /\ CommitIdle

Init ==
    /\ batch_size \in -1..MaxBatchSize
    /\ batch = <<>>
    /\ committed = <<>>
    /\ log = <<>>
    /\ outcome = "none"
    /\ failure = NoFailure
    /\ lastOp = "init"
    /\ lastBatch = <<>>
    /\ lastCommitted = 0
    /\ lastAdded = [sinceCall |-> 0, sinceOk |-> 0]
    /\ addedSinceCall = 0
    /\ addedSinceOk = 0
    /\ nextId = 1
    /\ applies = 0
    /\ dictLEFT = <<>>
    /\ dictRIGHT = <<>>
    /\ leftCols = 1
    /\ rightCols = 1
    /\ perc_entries_right = 95
    /\ comparison_cutoff = 90
    /\ pre_processing_function = "none"
    /\ session_id = "none"
    /\ relationship_label = "none"
    /\ pc = "idle"
    /\ k = 0
    /\ trimmed_lengths = <<>>
    /\ all_trimmed_items_left = <<>>
    /\ link_error = "none"
    /\ emitted = <<>>
    /\ attempts = <<>>
    /\ flushes = <<>>
    /\ MeshIdle
    /\ PluginIdle
    /\ ReaderIdle

\* add_item, lines 40-41.
add_item ==
    /\ nextId <= MaxItems
    /\ batch' = Append(batch, nextId)
    /\ nextId' = nextId + 1
    /\ addedSinceCall' = addedSinceCall + 1
    /\ addedSinceOk' = addedSinceOk + 1
    /\ lastOp' = "add_item"
    /\ UNCHANGED <<pluginVars, readerVars, batch_size, committed, log, outcome, failure, lastBatch,
                   lastCommitted, lastAdded, applies, linkArgs, linkLocals,
                   meshVars>>

\* extend_batch, lines 44-45, with a list of n fresh items.
extend_batch ==
    \E n \in 0..MaxExtend :
        /\ nextId + n - 1 <= MaxItems
        /\ batch' = batch \o [i \in 1..n |-> nextId + i - 1]
        /\ nextId' = nextId + n
        /\ addedSinceCall' = addedSinceCall + n
        /\ addedSinceOk' = addedSinceOk + n
        /\ lastOp' = "extend_batch"
        /\ UNCHANGED <<pluginVars, readerVars, batch_size, committed, log, outcome, failure, lastBatch,
                       lastCommitted, lastAdded, applies, linkArgs, linkLocals,
                       meshVars>>

\* The effect of apply() on the buffer b of a batch of size bs when store call
\* f raises (0: none): [batch, committed, log, outcome, failure].
ApplyResult(b, bs, done, f) ==
    IF Len(b) = 0
    THEN \* line 53: nothing to do
         [batch |-> b, committed |-> done, log |-> <<>>, outcome |-> "ok",
          failure |-> NoFailure]
    ELSE IF bs = 0
    THEN \* line 54: range() arg 3 must not be zero
         [batch |-> b, committed |-> done, log |-> <<>>, outcome |-> "raised",
          failure |-> [op |-> "ValueError", chunk |-> 0]]
    ELSE IF bs < 0
    THEN \* line 56: chunk_indexes is empty, chunk_indexes[-1] raises
         [batch |-> b, committed |-> done, log |-> <<>>, outcome |-> "raised",
          failure |-> [op |-> "IndexError", chunk |-> 0]]
    ELSE LET ops == ApplyOps(Batches(b, bs))
             ran == IF f = 0 THEN ops ELSE SubSeq(ops, 1, f - 1)
         IN  [batch |-> BatchAfterApply(b, f),
              committed |-> done \o CommittedBy(ran),
              log |-> ran,
              outcome |-> Propagate(f),
              failure |-> IF f = 0 THEN NoFailure
                          ELSE [op |-> ops[f].op, chunk |-> ops[f].chunk]]

\* The store calls apply() would make on b: the places where it can raise.
NumOps(b, bs) == IF Len(b) = 0 \/ bs <= 0 THEN 0 ELSE Len(ApplyOps(Batches(b, bs)))

\* apply(), lines 47-62.
apply ==
    /\ applies < MaxApplies
    /\ \E f \in 0..NumOps(batch, batch_size) :
        LET r == ApplyResult(batch, batch_size, committed, f)
        IN  /\ batch' = r.batch
            /\ committed' = r.committed
            /\ log' = r.log
            /\ outcome' = r.outcome
            /\ failure' = r.failure
            /\ addedSinceOk' = IF r.outcome = "ok" THEN 0 ELSE addedSinceOk
    /\ lastOp' = "apply"
    /\ lastBatch' = batch
    /\ lastCommitted' = Len(committed)
    /\ lastAdded' = [sinceCall |-> addedSinceCall, sinceOk |-> addedSinceOk]
    /\ addedSinceCall' = 0
    /\ applies' = applies + 1
    /\ UNCHANGED <<pluginVars, readerVars, batch_size, nextId, linkArgs, linkLocals, meshVars>>

Next == add_item \/ extend_batch \/ apply

Spec == Init /\ [][Next]_vars

\* ------------------------------------------------- OGMTransactionBatchAsync
\* The store calls of _batch_apply, lines 73-77, for chunk c when its call f
\* raises (0: none does): the coroutine holds no await and stops at the raise.
BatchApplyOps(a_batch, c, f) ==
    IF f = 0 THEN ChunkOps(a_batch, c) ELSE SubSeq(ChunkOps(a_batch, c), 1, f - 1)

\* The places where the coroutines of one apply() can raise, one per chunk:
\* gather() runs every coroutine whether or not an earlier one raised. Either
\* no call raises, or call f of one chunk does and then the later chunks run
\* (later = 0) or the store refuses the begin of each of them (later = 1).
AsyncFailures(b, bs) ==
    IF Len(b) = 0 \/ bs <= 0 THEN {<<>>}
    ELSE LET batches == Batches(b, bs)
         IN  {[c \in 1..Len(batches) |-> 0]} \cup
             UNION {{[c \in 1..Len(batches) |->
                         IF c < x THEN 0 ELSE IF c = x THEN f ELSE later]
                        : f \in 1..(Len(batches[x]) + 2), later \in {0, 1}}
                    : x \in 1..Len(batches)}

\* The effect of OGMTransactionBatchAsync.apply(), lines 79-84, on the buffer
\* b when call fs[c] of chunk c raises: [batch, committed, log, outcome,
\* failure]. There is no test of len(self._batch) and no self._batch = [].
ApplyAsyncResult(b, bs, done, fs) ==
    IF bs = 0
    THEN \* line 80: range() arg 3 must not be zero
         [batch |-> b, committed |-> done, log |-> <<>>, outcome |-> "raised",
          failure |-> [op |-> "ValueError", chunk |-> 0]]
    ELSE IF Len(b) = 0 \/ bs < 0
    THEN \* line 82: chunk_indexes is empty, chunk_indexes[-1] raises
         [batch |-> b, committed |-> done, log |-> <<>>, outcome |-> "raised",
          failure |-> [op |-> "IndexError", chunk |-> 0]]
    ELSE LET batches == Batches(b, bs)
             ran == Flatten([c \in 1..Len(batches) |-> BatchApplyOps(batches[c], c, fs[c])])
             failed == {c \in 1..Len(batches) : fs[c] # 0}
             first == CHOOSE c \in failed : \A d \in failed : c <= d
         IN  [batch |-> b,
              committed |-> done \o CommittedBy(ran),
              log |-> ran,
              outcome |-> IF failed = {} THEN "ok" ELSE "raised",
              failure |-> IF failed = {} THEN NoFailure
                          ELSE [op |-> ChunkOps(batches[first], first)[fs[first]].op,
                                chunk |-> first]]

\* OGMTransactionBatchAsync.apply(), lines 79-84.
apply_async ==
    /\ applies < MaxApplies
    /\ \E fs \in AsyncFailures(batch, batch_size) :
        LET r == ApplyAsyncResult(batch, batch_size, committed, fs)
        IN  /\ batch' = r.batch
            /\ committed' = r.committed
            /\ log' = r.log
            /\ outcome' = r.outcome
            /\ failure' = r.failure
            /\ addedSinceOk' = IF r.outcome = "ok" THEN 0 ELSE addedSinceOk
    /\ lastOp' = "apply_async"
    /\ lastBatch' = batch
    /\ lastCommitted' = Len(committed)
    /\ lastAdded' = [sinceCall |-> addedSinceCall, sinceOk |-> addedSinceOk]
    /\ addedSinceCall' = 0
    /\ applies' = applies + 1
    /\ UNCHANGED <<pluginVars, readerVars, batch_size, nextId, linkArgs, linkLocals, meshVars>>

\* An OGMTransactionBatchAsync: add_item and extend_batch are inherited.
NextAsync == add_item \/ extend_batch \/ apply_async

SpecAsync == Init /\ [][NextAsync]_vars

\* ------------------------------------------------- link_sets_of_entities
\* The numbers of node columns a query row may hold (the entities of a key):
\* the queries of the link command return one, theNode.
ColumnCounts == {1, 2}

\* The values of perc_entries_right tried, in percent. On a pool of fewer than
\* 20 keys the default, 0.95, selects what 1.0 selects.
PercChoices == {50, 100}

\* The values of comparison_cutoff tried, in percent; 0.9 is the default.
CutoffChoices == {60, 90}

\* The strings the two queries may return as keys.
LeftUniverse == {<<"a", "b">>, <<"b", "a">>, <<"a">>, <<"a", "b", "b">>}
RightUniverse ==
    {<<"a", "b", ",", "a", "b">>,          \* "ab,ab"
     <<"a", "b", "b", " ", ";", " ", "a">>, \* "abb ; a"
     <<"A", "b">>}                         \* "Ab"

\* The row orders a query may return: sequences without repetition (the keys
\* of a dict), of at most n rows.
Rows(universe, n) ==
    UNION {{q \in [1..m -> universe] : \A i, j \in 1..m : i # j => q[i] # q[j]}
           : m \in 0..n}

\* The node columns of a row, list(row.values()) of lines 254-255.
Entities(side, key, cols) == [c \in 1..cols |-> [side |-> side, key |-> key, col |-> c]]

\* standardised_item_right, line 239.
Standardise(key, f) == IF f = "lower" THEN Lower(key) ELSE key

\* item_right_tokens_to_compare, line 245: a set.
TokensToCompare(tokens, lengths) == {t \in Range(tokens) : Len(t) \in Range(lengths)}

\* Mutant of CompareOrders: the tokens are visited as the list the split gave.
CompareOrders_List(tokens, lengths) ==
    {SelectSeq2(tokens, {t \in Range(tokens) : Len(t) \in Range(lengths)})}

\* The orders in which the loop of line 248 may visit the set: the iteration
\* order of a set of str is not fixed.
CompareOrders(tokens, lengths) ==
    LET S == TokensToCompare(tokens, lengths)
    IN  {q \in [1..Cardinality(S) -> S] : \A i, j \in 1..Cardinality(S) : i # j => q[i] # q[j]}

\* Mutant of SelectedLeftKey: the weakest of the returned matches is taken.
SelectedLeftKey_Last(comparison_result) == comparison_result[Len(comparison_result)]

\* The LEFT key whose entities are linked, line 255: comparison_result[0].
SelectedLeftKey(comparison_result) == comparison_result[1]

\* Lines 251-267: the ItemRelationship instructions one compared token adds,
\* aRIGHTItem.associations.connect(aLEFTItem, {process_id, rel_label}); rec and
\* token tell the instruction objects of different tokens apart.
LinksFor(rec, key, token, comparison_result, lcols, rcols, sid, label) ==
    IF Len(comparison_result) >= 1
    THEN LET right_items == Entities("R", key, rcols)
             left_items == Entities("L", SelectedLeftKey(comparison_result), lcols)
         IN  Flatten([r \in 1..Len(right_items) |->
                 [l \in 1..Len(left_items) |->
                     [src |-> right_items[r], dst |-> left_items[l],
                      process_id |-> sid, rel_label |-> label,
                      rec |-> rec, token |-> token]]])
    ELSE <<>>

\* Mutant of FlushDue: the periodic flush never happens.
FlushDue_Never(n) == FALSE

\* Line 231: not (k % 1000), with the period scaled to FlushEvery.
FlushDue(n) == n % FlushEvery = 0

InitLink ==
    /\ batch_size = LinkBatchSize
    /\ batch = <<>>
    /\ committed = <<>>
    /\ log = <<>>
    /\ outcome = "none"
    /\ failure = NoFailure
    /\ lastOp = "init"
    /\ lastBatch = <<>>
    /\ lastCommitted = 0
    /\ lastAdded = [sinceCall |-> 0, sinceOk |-> 0]
    /\ addedSinceCall = 0
    /\ addedSinceOk = 0
    /\ nextId = 1
    /\ applies = 0
    /\ dictLEFT \in Rows(LeftUniverse, MaxLeft)
    /\ dictRIGHT \in Rows(RightUniverse, MaxRight)
    /\ leftCols \in ColumnCounts
    /\ rightCols \in ColumnCounts
    /\ perc_entries_right \in PercChoices
    /\ comparison_cutoff \in CutoffChoices
    /\ pre_processing_function \in {"none", "lower"}
    /\ session_id \in {"MySessionStep1"}
    /\ relationship_label \in {"FROM_COUNTRY"}
    /\ pc = "query"
    /\ k = 0
    /\ trimmed_lengths = <<>>
    /\ all_trimmed_items_left = <<>>
    /\ link_error = "none"
    /\ emitted = <<>>
    /\ attempts = <<>>
    /\ flushes = <<>>
    /\ MeshIdle
    /\ PluginIdle
    /\ ReaderIdle

\* Lines 191-227: the two queries, the length blocking of LEFT, the batch.
link_block ==
    /\ pc = "query"
    /\ IF dictLEFT = <<>>
       THEN \* line 212: cumsum is [], cumsum[0] = ... raises IndexError
            /\ pc' = "raised"
            /\ link_error' = "IndexError"
            /\ UNCHANGED <<pluginVars, readerVars, trimmed_lengths, all_trimmed_items_left>>
       ELSE /\ pc' = "loop"
            /\ trimmed_lengths' = TrimmedLengths(dictLEFT, perc_entries_right)
            /\ all_trimmed_items_left' = TrimmedKeys(dictLEFT, trimmed_lengths')
            /\ UNCHANGED link_error
    /\ UNCHANGED <<pluginVars, readerVars, batchVars, linkArgs, k, emitted, attempts, flushes, meshVars>>

\* batched_links.apply() inside the pass, when store call f raises (0: none).
link_apply(f, final) ==
    LET r == ApplyResult(batch, batch_size, committed, f)
    IN  /\ committed' = r.committed
        /\ outcome' = r.outcome
        /\ failure' = r.failure
        /\ lastOp' = "apply"
        /\ lastBatch' = batch
        /\ lastCommitted' = Len(committed)
        /\ flushes' = Append(flushes, [at |-> k, size |-> Len(batch), final |-> final])

\* The instructions one RIGHT record adds when its tokens are visited in order.
RecordLinks(rec, key, order) ==
    Flatten([i \in 1..Len(order) |->
        LinksFor(rec, key, order[i],
                 get_close_matches(order[i], all_trimmed_items_left, comparison_cutoff),
                 leftCols, rightCols, session_id, relationship_label)])

\* Lines 230-267: one turn of the loop over the RIGHT records.
link_record ==
    /\ pc = "loop"
    /\ k < Len(dictRIGHT)
    /\ LET key == dictRIGHT[k + 1]
           item_right_tokens ==
               SplitTokens(Standardise(key, pre_processing_function))
       IN  \E f \in 0..(IF FlushDue(k) THEN NumOps(batch, batch_size) ELSE 0) :
           \E order \in CompareOrders(item_right_tokens, trimmed_lengths) :
               LET flushed == IF FlushDue(k)
                              THEN ApplyResult(batch, batch_size, committed, f).batch
                              ELSE batch
                   new == RecordLinks(k + 1, key, order)
               IN  /\ IF FlushDue(k)
                      THEN link_apply(f, FALSE)
                      ELSE UNCHANGED <<pluginVars, readerVars, committed, outcome, failure, lastOp,
                                       lastBatch, lastCommitted, flushes>>
                   /\ IF f # 0
                      THEN \* the store raised in the periodic flush
                           /\ pc' = "raised"
                           /\ link_error' = "store"
                           /\ batch' = flushed
                           /\ UNCHANGED <<pluginVars, readerVars, k, emitted, attempts>>
                      ELSE IF order # <<>> /\ ~CutoffAccepted(comparison_cutoff)
                      THEN \* line 250: the first get_close_matches call raises
                           /\ pc' = "raised"
                           /\ link_error' = "ValueError"
                           /\ batch' = flushed
                           /\ attempts' = Append(attempts, [rec |-> k + 1, token |-> order[1]])
                           /\ UNCHANGED <<pluginVars, readerVars, k, emitted>>
                      ELSE /\ k' = k + 1
                           /\ batch' = flushed \o new
                           /\ emitted' = emitted \o new
                           /\ attempts' = attempts \o
                                 [i \in 1..Len(order) |-> [rec |-> k + 1, token |-> order[i]]]
                           /\ UNCHANGED <<pluginVars, readerVars, pc, link_error>>
    /\ UNCHANGED <<pluginVars, readerVars, batch_size, log, lastAdded, addedSinceCall, addedSinceOk,
                   nextId, applies, linkArgs, trimmed_lengths,
                   all_trimmed_items_left, meshVars>>

\* Line 269: the flush after the last RIGHT record.
link_finish ==
    /\ pc = "loop"
    /\ k = Len(dictRIGHT)
    /\ \E f \in 0..NumOps(batch, batch_size) :
        /\ link_apply(f, TRUE)
        /\ batch' = ApplyResult(batch, batch_size, committed, f).batch
        /\ pc' = IF f = 0 THEN "done" ELSE "raised"
        /\ link_error' = IF f = 0 THEN "none" ELSE "store"
    /\ UNCHANGED <<pluginVars, readerVars, batch_size, log, lastAdded, addedSinceCall, addedSinceOk,
                   nextId, applies, linkArgs, k, trimmed_lengths,
                   all_trimmed_items_left, emitted, attempts, meshVars>>

NextLink == link_block \/ link_record \/ link_finish

SpecLink == InitLink /\ [][NextLink]_vars

\* ------------------------------------------------- link_sets_of_entities, any tunables
\* The values of perc_entries_right and comparison_cutoff a caller may pass, in
\* percent: the function takes any float. 0.95 is the default coverage, 0.8
\* the cutoff of a country pass whose keys are to match by a few letters.
AnyPercChoices == {-50, 0, 95, 150}
AnyCutoffChoices == {-10, 80, 150}

\* Country names as LEFT keys, affiliations as RIGHT keys.
CountryUniverse ==
    {<<"k", "i", "n", "g", "d", "o", "m">>,   \* "kingdom"
     <<"l", "o", "n", "d", "o", "n">>,        \* "london"
     <<"a", "b">>}                            \* "ab"
AffiliationUniverse ==
    {<<"k", "i", "n", "g", "d", "o", "m", ",", " ", "l", "o", "n", "d", "o", "n">>,
                                              \* "kingdom, london"
     <<"a", "b", ",", "a", "b">>}             \* "ab,ab"

\* A pass called with any tunables over country names and affiliations.
InitLinkAny ==
    /\ batch_size = LinkBatchSize
    /\ batch = <<>>
    /\ committed = <<>>
    /\ log = <<>>
    /\ outcome = "none"
    /\ failure = NoFailure
    /\ lastOp = "init"
    /\ lastBatch = <<>>
    /\ lastCommitted = 0
    /\ lastAdded = [sinceCall |-> 0, sinceOk |-> 0]
    /\ addedSinceCall = 0
    /\ addedSinceOk = 0
    /\ nextId = 1
    /\ applies = 0
    /\ dictLEFT \in Rows(CountryUniverse, MaxLeft)
    /\ dictRIGHT \in Rows(AffiliationUniverse, MaxRight)
    /\ leftCols \in ColumnCounts
    /\ rightCols \in ColumnCounts
    /\ perc_entries_right \in AnyPercChoices
    /\ comparison_cutoff \in AnyCutoffChoices
    /\ pre_processing_function \in {"none", "lower"}
    /\ session_id \in {"MySessionStep1"}
    /\ relationship_label \in {"FROM_COUNTRY"}
    /\ pc = "query"
    /\ k = 0
    /\ trimmed_lengths = <<>>
    /\ all_trimmed_items_left = <<>>
    /\ link_error = "none"
    /\ emitted = <<>>
    /\ attempts = <<>>
    /\ flushes = <<>>
    /\ MeshIdle
    /\ PluginIdle
    /\ ReaderIdle

SpecLinkAny == InitLinkAny /\ [][NextLink]_vars

\* ------------------------------------------------- link_sets_of_entities, two tokens, one key
\* RIGHT keys whose split gives two different tokens of one length.
TwoTokenUniverse ==
    {<<"a", "b", "b", ",", "b", "a", "b">>,   \* "abb,bab"
     <<"a", "b", ",", "a", "b">>}             \* "ab,ab"

\* A pass over RIGHT keys with several tokens of one length.
InitLinkTwoTokens ==
    /\ batch_size = LinkBatchSize
    /\ batch = <<>>
    /\ committed = <<>>
    /\ log = <<>>
    /\ outcome = "none"
    /\ failure = NoFailure
    /\ lastOp = "init"
    /\ lastBatch = <<>>
    /\ lastCommitted = 0
    /\ lastAdded = [sinceCall |-> 0, sinceOk |-> 0]
    /\ addedSinceCall = 0
    /\ addedSinceOk = 0
    /\ nextId = 1
    /\ applies = 0
    /\ dictLEFT \in Rows(LeftUniverse, MaxLeft)
    /\ dictRIGHT \in Rows(TwoTokenUniverse, MaxRight)
    /\ leftCols \in ColumnCounts
    /\ rightCols \in ColumnCounts
    /\ perc_entries_right \in PercChoices
    /\ comparison_cutoff \in CutoffChoices
    /\ pre_processing_function \in {"none", "lower"}
    /\ session_id \in {"MySessionStep1"}
    /\ relationship_label \in {"FROM_COUNTRY"}
    /\ pc = "query"
    /\ k = 0
    /\ trimmed_lengths = <<>>
    /\ all_trimmed_items_left = <<>>
    /\ link_error = "none"
    /\ emitted = <<>>
    /\ attempts = <<>>
    /\ flushes = <<>>
    /\ MeshIdle
    /\ PluginIdle
    /\ ReaderIdle

SpecLinkTwoTokens == InitLinkTwoTokens /\ [][NextLink]_vars

\* ------------------------------------------------- MeSH: the temporal merge
\* The loop of cmeshprep.preprocess (lines 128-221), which is the loop of
\* MeSHLongitudinalDataItemReader.read_archive (mesh.py lines 162-229) line for
\* line. A snapshot is MeSHDataItemMemoryInsert.memory_storage: DUI -> the
\* descriptor's fields. Of the scalar fields only DescriptorName is kept: the
\* others are overwritten like it (update, line 216) and read by nothing.

\* None, where a year may stand.
None == 0

DUIs == {"D1", "D2"}

\* Tree numbers, as the segments their dots delimit: "A01", "A01.100", "B01".
TreeA == <<"A01">>
TreeA100 == <<"A01", "100">>
TreeB == <<"B01">>

\* What a descriptor file may say of a DUI. TreeNumberList is kept as the set
\* of its elements: the code reads it through set() and as dict keys only.
Descriptors(dui) ==
    IF dui = "D1"
    THEN [DescriptorUI : {dui}, DescriptorName : {"Alpha", "Beta"},
          TreeNumberList : SUBSET {TreeA100, TreeB}]
    ELSE [DescriptorUI : {dui}, DescriptorName : {"Gamma"},
          TreeNumberList : {{TreeA}}]

\* The contents a descriptor file may have: any set of the DUIs.
Snapshots ==
    UNION {{U \in [S -> UNION {Descriptors(d) : d \in S}] :
                \A d \in S : U[d] \in Descriptors(d)} : S \in SUBSET DUIs}

\* The files of a run, lines 120-126: sorted by year, one file per year.
YearLists(n) ==
    UNION {{ys \in [1..m -> 1..MaxYear] : \A i, j \in 1..m : i < j => ys[i] < ys[j]}
           : m \in 0..n}

\* xml_input_files[a_file[0] - 1]["year"] for the i-th file, i from 1: the year
\* of the file before it, and for the first file, Python's index -1, the last.
\* Mutant of ClosingYear: the year of the file being folded.
ClosingYear_Current(files, i) == files[i]

ClosingYear_YearBefore(files, i) == files[i] - 1

ClosingYear(files, i) == IF i = 1 THEN files[Len(files)] ELSE files[i - 1]

OpenInterval(year) == [from |-> year, to |-> None]

\* Mutant of AddedRecord: the tree numbers get no history.
AddedRecord_NoHistory(data, year) ==
    [DescriptorUI |-> data.DescriptorUI,
     DescriptorName |-> data.DescriptorName,
     TreeNumberList |-> data.TreeNumberList,
     ValidFromTo |-> OpenInterval(year),
     Aliases |-> <<<<data.DescriptorName, OpenInterval(year)>>>>,
     TreeNumberHistory |-> <<>>]

\* Lines 141-153: the record of an added DUI.
AddedRecord(data, year) ==
    [DescriptorUI |-> data.DescriptorUI,
     DescriptorName |-> data.DescriptorName,
     TreeNumberList |-> data.TreeNumberList,
     ValidFromTo |-> OpenInterval(year),
     Aliases |-> <<<<data.DescriptorName, OpenInterval(year)>>>>,
     TreeNumberHistory |-> [tn \in data.TreeNumberList |-> <<OpenInterval(year)>>]]

\* Mutant of WithdrawnRecord: the alias in force is closed with the record.
WithdrawnRecord_AliasClosed(rec, closing) ==
    [rec EXCEPT !.ValidFromTo.to = closing,
                !.Aliases[Len(rec.Aliases)][2].to = closing]

\* Line 160: the record of a withdrawn DUI.
WithdrawnRecord(rec, closing) == [rec EXCEPT !.ValidFromTo.to = closing]

\* Mutant of NameChanged: every snapshot counts as a rename.
NameChanged_Always(data, before) == TRUE

\* Line 166.
NameChanged(data, before) == data.DescriptorName # before.DescriptorName

\* Mutant of AliasesAfter: the alias in force is left open.
AliasesAfter_LeftOpen(aliases, data, before, year, closing) ==
    IF NameChanged(data, before)
    THEN Append(aliases, <<data.DescriptorName, OpenInterval(year)>>)
    ELSE aliases

\* Lines 166-172: the alias list of a DUI present in both snapshots.
AliasesAfter(aliases, data, before, year, closing) ==
    IF NameChanged(data, before)
    THEN Append([aliases EXCEPT ![Len(aliases)][2].to = closing],
                <<data.DescriptorName, OpenInterval(year)>>)
    ELSE aliases

\* The indexes of the records of a tree number that are open, line 208-210.
OpenIndexes(history) == {i \in 1..Len(history) : history[i].to = None}

\* Mutant of Reassigned: the earlier records are dropped.
Reassigned_Afresh(history, year) == <<OpenInterval(year)>>

\* Lines 192-195: a tree number that was assigned in the past.
Reassigned(history, year) == Append(history, OpenInterval(year))

\* Mutant of ClosedAt: nothing is closed.
ClosedAt_Kept(history, closing) == history

\* Lines 200-214: the records of a removed tree number. The only record is
\* closed whatever it holds; of several, the first open one.
ClosedAt(history, closing) ==
    IF Len(history) = 1
    THEN [history EXCEPT ![1].to = closing]
    ELSE LET treenumber_historic_index == OpenIndexes(history)
             first == CHOOSE i \in treenumber_historic_index :
                          \A j \in treenumber_historic_index : i <= j
         IN  [history EXCEPT ![first].to = closing]

\* What the removal of tree number tn raises: the history has no such key
\* (line 200), or treenumber_historic_index is empty (line 214).
RemovalError(TreeNumberHistory, tn) ==
    IF tn \notin DOMAIN TreeNumberHistory THEN "KeyError"
    ELSE IF Len(TreeNumberHistory[tn]) # 1 /\ OpenIndexes(TreeNumberHistory[tn]) = {}
    THEN "IndexError"
    ELSE "none"

\* Lines 176-214: TreeNumberHistory of a DUI present in both snapshots.
HistoryAfter(TreeNumberHistory, data, before, year, closing) ==
    LET tree_numbers_added == data.TreeNumberList \ before.TreeNumberList
        tree_numbers_removed == before.TreeNumberList \ data.TreeNumberList
    IN  [tn \in (DOMAIN TreeNumberHistory) \cup tree_numbers_added |->
            IF tn \in tree_numbers_added
            THEN IF tn \notin DOMAIN TreeNumberHistory
                 THEN <<OpenInterval(year)>>
                 ELSE Reassigned(TreeNumberHistory[tn], year)
            ELSE IF tn \in tree_numbers_removed
            THEN ClosedAt(TreeNumberHistory[tn], closing)
            ELSE TreeNumberHistory[tn]]

\* Lines 164-216: the record of a DUI present in both snapshots.
UpdatedRecord(rec, data, before, year, closing) ==
    [DescriptorUI |-> data.DescriptorUI,
     DescriptorName |-> data.DescriptorName,
     TreeNumberList |-> data.TreeNumberList,
     ValidFromTo |-> rec.ValidFromTo,
     Aliases |-> AliasesAfter(rec.Aliases, data, before, year, closing),
     TreeNumberHistory |-> HistoryAfter(rec.TreeNumberHistory, data, before, year, closing)]

\* The errors the fold of snapshot U raises, lines 198-214.
FoldErrors(tree, before, U) ==
    UNION {{RemovalError(tree[d].TreeNumberHistory, tn) :
                tn \in before[d].TreeNumberList \ U[d].TreeNumberList}
           : d \in (DOMAIN U) \cap (DOMAIN before)}
    \ {"none"}

\* Mutant of FoldSnapshot: a DUI counts as added only when the master tree
\* never held it.
FoldSnapshot_AddedByTree(tree, before, U, files, i) ==
    LET year == files[i]
        closing == ClosingYear(files, i)
        added_duis == (DOMAIN U) \ (DOMAIN tree)
        withdrawn_duis == (DOMAIN before) \ (DOMAIN U)
        duis_to_update == (DOMAIN U) \cap (DOMAIN before)
    IN  [d \in (DOMAIN tree) \cup added_duis |->
            IF d \in added_duis THEN AddedRecord(U[d], year)
            ELSE IF d \in withdrawn_duis THEN WithdrawnRecord(tree[d], closing)
            ELSE IF d \in duis_to_update
            THEN UpdatedRecord(tree[d], U[d], before[d], year, closing)
            ELSE tree[d]]

\* Lines 137-216: the master tree after snapshot U, the i-th file, is folded in.
FoldSnapshot(tree, before, U, files, i) ==
    LET year == files[i]
        closing == ClosingYear(files, i)
        added_duis == (DOMAIN U) \ (DOMAIN before)
        withdrawn_duis == (DOMAIN before) \ (DOMAIN U)
        duis_to_update == ((DOMAIN U) \ added_duis) \ withdrawn_duis
    IN  [d \in (DOMAIN tree) \cup added_duis |->
            IF d \in added_duis THEN AddedRecord(U[d], year)
            ELSE IF d \in withdrawn_duis THEN WithdrawnRecord(tree[d], closing)
            ELSE IF d \in duis_to_update
            THEN UpdatedRecord(tree[d], U[d], before[d], year, closing)
            ELSE tree[d]]

InitMesh ==
    /\ batch_size = LinkBatchSize
    /\ batch = <<>>
    /\ committed = <<>>
    /\ log = <<>>
    /\ outcome = "none"
    /\ failure = NoFailure
    /\ lastOp = "init"
    /\ lastBatch = <<>>
    /\ lastCommitted = 0
    /\ lastAdded = [sinceCall |-> 0, sinceOk |-> 0]
    /\ addedSinceCall = 0
    /\ addedSinceOk = 0
    /\ nextId = 1
    /\ applies = 0
    /\ dictLEFT = <<>>
    /\ dictRIGHT = <<>>
    /\ leftCols = 1
    /\ rightCols = 1
    /\ perc_entries_right = 95
    /\ comparison_cutoff = 90
    /\ pre_processing_function = "none"
    /\ session_id = "none"
    /\ relationship_label = "none"
    /\ pc = "idle"
    /\ k = 0
    /\ trimmed_lengths = <<>>
    /\ all_trimmed_items_left = <<>>
    /\ link_error = "none"
    /\ emitted = <<>>
    /\ attempts = <<>>
    /\ flushes = <<>>
    /\ xml_input_files \in YearLists(MaxSnapshots)
    /\ file_index = 0
    /\ previous_year = <<>>
    /\ current_master_tree = <<>>
    /\ mesh_pc = "fold"
    /\ mesh_error = "none"
    /\ ingested = <<>>
    /\ CommitIdle
    /\ PluginIdle
    /\ ReaderIdle

\* Lines 130-221: one turn of the loop, over the next file, which holds U.
mesh_ingest ==
    /\ mesh_pc = "fold"
    /\ file_index < Len(xml_input_files)
    /\ \E U \in Snapshots :
        /\ ingested' = Append(ingested, U)
        /\ IF FoldErrors(current_master_tree, previous_year, U) # {}
           THEN /\ mesh_pc' = "raised"
                /\ mesh_error' \in FoldErrors(current_master_tree, previous_year, U)
                /\ UNCHANGED <<pluginVars, readerVars, file_index, previous_year, current_master_tree>>
           ELSE /\ current_master_tree' =
                       FoldSnapshot(current_master_tree, previous_year, U,
                                    xml_input_files, file_index + 1)
                /\ previous_year' = U
                /\ file_index' = file_index + 1
                /\ UNCHANGED <<pluginVars, readerVars, mesh_pc, mesh_error>>
    /\ UNCHANGED <<pluginVars, readerVars, batchVars, linkArgs, linkLocals, xml_input_files, commitVars>>

\* Lines 223-227: the master tree is written out.
mesh_save ==
    /\ mesh_pc = "fold"
    /\ file_index = Len(xml_input_files)
    /\ mesh_pc' = "saved"
    /\ UNCHANGED <<pluginVars, readerVars, batchVars, linkArgs, linkLocals, xml_input_files, file_index,
                   previous_year, current_master_tree, mesh_error, ingested,
                   commitVars>>

NextMesh == mesh_ingest \/ mesh_save

SpecMesh == InitMesh /\ [][NextMesh]_vars

\* ------------------------------------------------- MeSH: the commit step
\* MeSHLongitudinalDataItemInsert: on_dataitem_extract (mesh.py lines 250-264)
\* loads the master tree, on_end_extract (lines 266-329) writes it to the store.
\* The store holds nodes and typed relationships; run tells what the store
\* held before this import ("old") from what this import wrote ("new").

\* Snapshots folded into the master tree that is committed.
MaxCommitSnapshots == 2

RECURSIVE FoldFrom(_, _, _, _, _)
FoldFrom(tree, before, files, snaps, i) ==
    IF i > Len(files) THEN tree
    ELSE FoldFrom(FoldSnapshot(tree, before, snaps[i], files, i), snaps[i],
                  files, snaps, i + 1)

\* The master trees the preprocessing writes for the descriptor files of n
\* consecutive years or fewer, the first of year 1.
MasterTrees(n) ==
    UNION {{FoldFrom(<<>>, <<>>, [y \in 1..len |-> y], snaps, 1)
               : snaps \in [1..len -> Snapshots]}
           : len \in 0..n}

\* Line 276: datetime.datetime.now().year + 1, the import running in the year
\* of the last descriptor file at the earliest.
max_year_const == MaxYear + 1

\* The relationship types of models/pubmed.py, lines 93 and 100, and the type
\* the query of mesh.py line 285 matches.
AliasRelType == "PREVIOUSLY_KNOWN_AS"
SpecialisationRelType == "SPECIALISATION_OF_TRM"
DeletedRelType == "SPECIALISATION_OF"

\* The order of the items of the JSON file: cmeshprep writes it with sort_keys.
ItemOrder == <<"D1", "D2">>

\* The order in which a record's TreeNumberHistory lists its tree numbers (the
\* order they were first assigned in); of these only A01.100 has a parent.
TreeNumberOrder == <<TreeA, TreeA100, TreeB>>

\* The DUIs of the tree, in item order: _current_master_tree.keys().
TreeItems(tree) == SelectSeq2(ItemOrder, DOMAIN tree)

\* _master_lookup[tn], lines 258-263: (DUI, from, to) of every record of tn.
MasterLookup(tree, tn) ==
    LET items == TreeItems(tree)
    IN  Flatten([n \in 1..Len(items) |->
            IF tn \in DOMAIN tree[items[n]].TreeNumberHistory
            THEN [h \in 1..Len(tree[items[n]].TreeNumberHistory[tn]) |->
                     [dui |-> items[n],
                      from |-> tree[items[n]].TreeNumberHistory[tn][h].from,
                      to |-> tree[items[n]].TreeNumberHistory[tn][h].to]]
            ELSE <<>>])

\* The keys of _master_lookup.
LookupKeys(tree) == UNION {DOMAIN tree[d].TreeNumberHistory : d \in DOMAIN tree}

\* Line 316: ".".join(tn.split(".")[:-1]); the empty string is <<>>.
SpecialisationOf(tn) == SubSeq(tn, 1, Len(tn) - 1)

\* Mutant of OrMax: None is compared as it is.
OrMax_NoSentinel(x) == x

\* x or max_year_const, for a year or None.
OrMax(x) == IF x = None THEN max_year_const ELSE x

\* Lines 318-326: the edges of one record of tree number tn of DUI d.
EdgesOfRecord(tree, d, tn, temporal_data) ==
    LET lookup == MasterLookup(tree, SpecialisationOf(tn))
        keep == {b \in 1..Len(lookup) :
                    /\ temporal_data.from >= lookup[b].from
                    /\ OrMax(temporal_data.to) <= OrMax(lookup[b].to)}
        RECURSIVE Pick(_)
        Pick(b) == IF b > Len(lookup) THEN <<>>
                   ELSE IF b \in keep
                   THEN <<[type |-> SpecialisationRelType, src |-> d,
                           dst |-> lookup[b].dui, tree_number |-> tn,
                           valid_from |-> temporal_data.from,
                           valid_to |-> OrMax(temporal_data.to)]>> \o Pick(b + 1)
                   ELSE Pick(b + 1)
    IN  Pick(1)

\* Lines 313-326: the specialisation edges of DUI d.
SpecialisationEdges(tree, d) ==
    LET tns == SelectSeq2(TreeNumberOrder,
                          {tn \in DOMAIN tree[d].TreeNumberHistory :
                               SpecialisationOf(tn) # <<>>})
    IN  Flatten([t \in 1..Len(tns) |->
            Flatten([h \in 1..Len(tree[d].TreeNumberHistory[tns[t]]) |->
                EdgesOfRecord(tree, d, tns[t], tree[d].TreeNumberHistory[tns[t]][h])])])

\* Lines 291-310: the alias edges of DUI d.
AliasEdges(tree, d) ==
    [a \in 1..Len(tree[d].Aliases) |->
        [type |-> AliasRelType, src |-> d, dst |-> tree[d].Aliases[a][1],
         tree_number |-> <<>>,
         valid_from |-> tree[d].Aliases[a][2].from,
         valid_to |-> tree[d].Aliases[a][2].to]]

\* Line 321: self._master_lookup[specialisation_of] raises KeyError for a
\* parent tree number no DUI of the tree ever held.
LookupMisses(tree) ==
    {tn \in LookupKeys(tree) :
        SpecialisationOf(tn) # <<>> /\ SpecialisationOf(tn) \notin LookupKeys(tree)}

\* batched_mesh_specialisation_edges and batched_mesh_alias_edges, as filled by
\* the loop of lines 303-326.
AllSpecialisationEdges(tree) ==
    Flatten([n \in 1..Len(TreeItems(tree)) |-> SpecialisationEdges(tree, TreeItems(tree)[n])])

AllAliasEdges(tree) ==
    Flatten([n \in 1..Len(TreeItems(tree)) |-> AliasEdges(tree, TreeItems(tree)[n])])

\* The nodes and relationships an import of a tree writes, marked run.
TermNodes(tree, run) ==
    {[label |-> "PubmedMeSHTerm", key |-> d, run |-> run] : d \in DOMAIN tree}

TermAliasNodes(tree, run) ==
    {[label |-> "PubmedMeSHTermAlias", key |-> AllAliasEdges(tree)[a].dst, run |-> run]
        : a \in 1..Len(AllAliasEdges(tree))}

Written(edge, run) ==
    [type |-> edge.type, src |-> edge.src, dst |-> edge.dst,
     tree_number |-> edge.tree_number, valid_from |-> edge.valid_from,
     valid_to |-> edge.valid_to, run |-> run]

\* A tree an earlier import may have committed: both DUIs, D1 under D2.
EarlierTree ==
    FoldFrom(<<>>, <<>>, <<1>>,
             <<[d \in DUIs |->
                  [DescriptorUI |-> d,
                   DescriptorName |-> IF d = "D1" THEN "Alpha" ELSE "Gamma",
                   TreeNumberList |-> IF d = "D1" THEN {TreeA100} ELSE {TreeA}]]>>, 1)

\* The stores an import may find: an empty one, or what an earlier import left.
EarlierStores ==
    {[nodes |-> {}, edges |-> {}],
     [nodes |-> TermNodes(EarlierTree, "old") \cup TermAliasNodes(EarlierTree, "old"),
      edges |-> {Written(AllSpecialisationEdges(EarlierTree)[e], "old")
                    : e \in 1..Len(AllSpecialisationEdges(EarlierTree))}
                \cup {Written(AllAliasEdges(EarlierTree)[e], "old")
                    : e \in 1..Len(AllAliasEdges(EarlierTree))}]}

Call(op, what, chunk, item) == [op |-> op, what |-> what, chunk |-> chunk, item |-> item]

\* The store calls of one batch's apply(), batchprocess.py lines 53-61.
BatchCalls(edges, what) ==
    IF edges = <<>> THEN <<>>
    ELSE LET ops == ApplyOps(Batches(edges, LinkBatchSize))
         IN  [c \in 1..Len(ops) |-> Call(ops[c].op, what, ops[c].chunk, ops[c].item)]

\* Lines 283-299: the store calls on_end_extract makes before it builds the
\* edge batches, in program order.
NodeCalls ==
    <<Call("cypher_query", "MATCH (a:PubmedMeSHTermAlias) DETACH DELETE a", 0, 0),
      Call("cypher_query", "MATCH (:PubmedMeSHTerm)-[p:SPECIALISATION_OF]->(:PubmedMeSHTerm) DETACH DELETE p", 0, 0),
      Call("create_or_update", "PubmedMeSHTerm", 0, 0),
      Call("create_or_update", "PubmedMeSHTermAlias", 0, 0)>>

\* Lines 328-329: the store calls of the two apply(), in program order.
EdgeCalls(tree) ==
    BatchCalls(AllSpecialisationEdges(tree), "specialisation_of")
    \o BatchCalls(AllAliasEdges(tree), "aliases")

\* The store after call c returned; tx holds the writes of the open transaction.
StoreAfter(store, tx, tree, c) ==
    IF c.op = "cypher_query" /\ c = NodeCalls[1]
    THEN [nodes |-> {n \in store.nodes : n.label # "PubmedMeSHTermAlias"},
          edges |-> {e \in store.edges : e.type # AliasRelType},
          tx |-> tx]
    ELSE IF c.op = "cypher_query"
    THEN [nodes |-> store.nodes,
          edges |-> {e \in store.edges : e.type # DeletedRelType},
          tx |-> tx]
    ELSE IF c.op = "create_or_update"
    THEN LET wanted == IF c.what = "PubmedMeSHTerm" THEN TermNodes(tree, "new")
                       ELSE TermAliasNodes(tree, "new")
         IN  [nodes |-> store.nodes \cup
                        {n \in wanted : ~\E o \in store.nodes :
                                            o.label = n.label /\ o.key = n.key},
              edges |-> store.edges, tx |-> tx]
    ELSE IF c.op = "begin" THEN [nodes |-> store.nodes, edges |-> store.edges, tx |-> {}]
    ELSE IF c.op = "apply"
    THEN [nodes |-> store.nodes, edges |-> store.edges,
          tx |-> tx \cup {Written(c.item, "new")}]
    ELSE [nodes |-> store.nodes, edges |-> store.edges \cup tx, tx |-> {}]

InitMeshCommit ==
    /\ batch_size = LinkBatchSize
    /\ batch = <<>>
    /\ committed = <<>>
    /\ log = <<>>
    /\ outcome = "none"
    /\ failure = NoFailure
    /\ lastOp = "init"
    /\ lastBatch = <<>>
    /\ lastCommitted = 0
    /\ lastAdded = [sinceCall |-> 0, sinceOk |-> 0]
    /\ addedSinceCall = 0
    /\ addedSinceOk = 0
    /\ nextId = 1
    /\ applies = 0
    /\ dictLEFT = <<>>
    /\ dictRIGHT = <<>>
    /\ leftCols = 1
    /\ rightCols = 1
    /\ perc_entries_right = 95
    /\ comparison_cutoff = 90
    /\ pre_processing_function = "none"
    /\ session_id = "none"
    /\ relationship_label = "none"
    /\ pc = "idle"
    /\ k = 0
    /\ trimmed_lengths = <<>>
    /\ all_trimmed_items_left = <<>>
    /\ link_error = "none"
    /\ emitted = <<>>
    /\ attempts = <<>>
    /\ flushes = <<>>
    /\ xml_input_files = <<>>
    /\ file_index = 0
    /\ previous_year = <<>>
    /\ current_master_tree \in MasterTrees(MaxCommitSnapshots)
    /\ mesh_pc = "idle"
    /\ mesh_error = "none"
    /\ ingested = <<>>
    /\ \E s \in EarlierStores : store_nodes = s.nodes /\ store_edges = s.edges
    /\ store_tx = {}
    /\ store_calls = <<>>
    /\ commit_pc = "nodes"
    /\ commit_error = "none"
    /\ PluginIdle
    /\ ReaderIdle

\* The call on_end_extract makes next.
NextCall ==
    IF commit_pc = "nodes" THEN NodeCalls[Len(store_calls) + 1]
    ELSE EdgeCalls(current_master_tree)[Len(store_calls) - Len(NodeCalls) + 1]

MoreCalls ==
    \/ commit_pc = "nodes" /\ Len(store_calls) < Len(NodeCalls)
    \/ commit_pc = "edges" /\ Len(store_calls) < Len(NodeCalls) + Len(EdgeCalls(current_master_tree))

\* A store call of on_end_extract that returns.
mesh_store_call ==
    /\ MoreCalls
    /\ LET after == StoreAfter([nodes |-> store_nodes, edges |-> store_edges],
                               store_tx, current_master_tree, NextCall)
       IN  /\ store_nodes' = after.nodes
           /\ store_edges' = after.edges
           /\ store_tx' = after.tx
    /\ store_calls' = Append(store_calls, NextCall)
    /\ UNCHANGED <<pluginVars, readerVars, batchVars, linkArgs, linkLocals, foldVars, commit_pc, commit_error>>

\* A store call of on_end_extract that raises: nothing catches it, and the
\* store drops the open transaction.
mesh_store_raise ==
    /\ MoreCalls
    /\ commit_pc' = "raised"
    /\ commit_error' = "store"
    /\ store_tx' = {}
    /\ UNCHANGED <<pluginVars, readerVars, batchVars, linkArgs, linkLocals, foldVars, store_nodes,
                   store_edges, store_calls>>

\* Lines 301-326: the edge batches are built from the tree.
mesh_build_edges ==
    /\ commit_pc = "nodes"
    /\ Len(store_calls) = Len(NodeCalls)
    /\ IF LookupMisses(current_master_tree) # {}
       THEN commit_pc' = "raised" /\ commit_error' = "KeyError"
       ELSE commit_pc' = "edges" /\ UNCHANGED commit_error
    /\ UNCHANGED <<pluginVars, readerVars, batchVars, linkArgs, linkLocals, foldVars, store_nodes,
                   store_edges, store_tx, store_calls>>

\* on_end_extract returns.
mesh_commit_done ==
    /\ commit_pc = "edges"
    /\ ~MoreCalls
    /\ commit_pc' = "done"
    /\ UNCHANGED <<pluginVars, readerVars, batchVars, linkArgs, linkLocals, foldVars, store_nodes,
                   store_edges, store_tx, store_calls, commit_error>>

NextMeshCommit ==
    mesh_store_call \/ mesh_store_raise \/ mesh_build_edges \/ mesh_commit_done

SpecMeshCommit == InitMeshCommit /\ [][NextMeshCommit]_vars

\* --------------------------------------------------------------- plugins
\* The longest max_length tried; strings of up to one character more are
\* assigned.
MaxLength == 3

\* Operations on one plugin.
MaxPluginSteps == 4

\* max_length=None.
NoMaxLength == -1

\* No batch and no linking pass is in use.
BatchIdle ==
    /\ batch_size = LinkBatchSize
    /\ batch = <<>>
    /\ committed = <<>>
    /\ log = <<>>
    /\ outcome = "none"
    /\ failure = NoFailure
    /\ lastOp = "init"
    /\ lastBatch = <<>>
    /\ lastCommitted = 0
    /\ lastAdded = [sinceCall |-> 0, sinceOk |-> 0]
    /\ addedSinceCall = 0
    /\ addedSinceOk = 0
    /\ nextId = 1
    /\ applies = 0

LinkIdle ==
    /\ dictLEFT = <<>>
    /\ dictRIGHT = <<>>
    /\ leftCols = 1
    /\ rightCols = 1
    /\ perc_entries_right = 95
    /\ comparison_cutoff = 90
    /\ pre_processing_function = "none"
    /\ session_id = "none"
    /\ relationship_label = "none"
    /\ pc = "idle"
    /\ k = 0
    /\ trimmed_lengths = <<>>
    /\ all_trimmed_items_left = <<>>
    /\ link_error = "none"
    /\ emitted = <<>>
    /\ attempts = <<>>
    /\ flushes = <<>>

\* The values assigned to a property: an int n; a str of n characters, which
\* names a readable file or does not.
IntValues == {[t |-> "int", n |-> v, file |-> FALSE] : v \in {0, 42}}
StrValues == {[t |-> "str", n |-> len, file |-> FALSE] : len \in 0..(MaxLength + 1)}
                \cup {[t |-> "str", n |-> 2, file |-> TRUE]}
PluginValues == IntValues \cup StrValues

PropertyClasses == {"PluginPropertyInt", "PluginPropertyString", "PluginPropertyFSPath"}

\* PluginPropertyString.validate, line 159: len(new_value) >= self._max_length.
TooLong(len, ml) == len >= ml

\* validate(new_value) of the property classes: what it raises, or "none" and
\* the value it returns.
\*   PluginPropertyInt, lines 92-104, without vmin and vmax: int(new_value)
\*     raises ValueError for a str of a's.
\*   PluginPropertyString, lines 155-165, without choices.
\*   PluginPropertyFSPath, lines 258-286, with its default flags: file_okay
\*     and readable are tested; the function has no return statement.
Validate(class, ml, v) ==
    IF class = "PluginPropertyInt"
    THEN IF v.t = "int" THEN [raises |-> "none", value |-> v]
         ELSE [raises |-> "ValueError", value |-> NoneValue]
    ELSE IF class = "PluginPropertyString"
    THEN IF v.t # "str" THEN [raises |-> "TypeError", value |-> NoneValue]
         ELSE IF ml # NoMaxLength /\ TooLong(v.n, ml)
         THEN [raises |-> "ValueError", value |-> NoneValue]
         ELSE [raises |-> "none", value |-> v]
    ELSE IF v.t # "str" THEN [raises |-> "TypeError", value |-> NoneValue]
         ELSE IF ~v.file THEN [raises |-> "ValueError", value |-> NoneValue]
         ELSE [raises |-> "none", value |-> NoneValue]

\* The max_length a property of a class may be declared with.
MaxLengths(class) ==
    IF class = "PluginPropertyString" THEN {NoMaxLength} \cup 1..MaxLength
    ELSE {NoMaxLength}

\* PluginPropertyBase.__init__, line 33: the default is None, or what validate
\* returns for the default given (one that validate accepts).
Defaults(class, ml) ==
    {NoneValue} \cup
    {Validate(class, ml, v).value : v \in {w \in PluginValues : Validate(class, ml, w).raises = "none"}}

\* A plugin class with one property, instantiated: PluginBase.__init__, lines
\* 294-297, whose reset() gives the property its default.
InitPlugin ==
    /\ BatchIdle
    /\ LinkIdle
    /\ MeshIdle
    /\ ReaderIdle
    /\ cm_object \in {"None", "CM"}
    /\ prop_class \in PropertyClasses
    /\ max_length \in MaxLengths(prop_class)
    /\ default_value \in Defaults(prop_class, max_length)
    /\ prop_value = default_value
    /\ plugin_op = [name |-> "init", arg |-> NoneValue, outcome |-> "none"]
    /\ hooks = <<>>
    /\ assigned = FALSE
    /\ plugin_steps = 0

\* u.prop = v: PluginPropertyBase.__set__, lines 52-53.
plugin_set ==
    /\ plugin_steps < MaxPluginSteps
    /\ \E v \in PluginValues :
        LET r == Validate(prop_class, max_length, v)
        IN  /\ prop_value' = IF r.raises = "none" THEN r.value ELSE prop_value
            /\ assigned' = IF r.raises = "none" THEN TRUE ELSE assigned
            /\ plugin_op' = [name |-> "set", arg |-> v,
                             outcome |-> IF r.raises = "none" THEN "stored" ELSE r.raises]
    /\ plugin_steps' = plugin_steps + 1
    /\ UNCHANGED <<batchVars, linkArgs, linkLocals, meshVars, readerVars,
                   cm_object, prop_class, max_length, default_value, hooks>>

\* u(): PluginBase.__call__, lines 366-380.
plugin_call ==
    /\ plugin_steps < MaxPluginSteps
    /\ IF cm_object = "None"
       THEN \* line 370: raise Exception("Plugins expect a valid CM")
            /\ plugin_op' = [name |-> "call", arg |-> NoneValue, outcome |-> "Exception"]
            /\ hooks' = <<>>
       ELSE IF default_value = NoneValue /\ prop_value = NoneValue
       THEN \* line 376
            /\ plugin_op' = [name |-> "call", arg |-> NoneValue, outcome |-> "ValueError"]
            /\ hooks' = <<>>
       ELSE \* lines 378-380
            /\ plugin_op' = [name |-> "call", arg |-> NoneValue, outcome |-> "returned None"]
            /\ hooks' = <<"on_before_process", "on_process", "on_after_process">>
    /\ plugin_steps' = plugin_steps + 1
    /\ UNCHANGED <<batchVars, linkArgs, linkLocals, meshVars, readerVars,
                   cm_object, prop_class, max_length, default_value, prop_value,
                   assigned>>

\* u.reset(): PluginBase.reset, lines 385-389.
plugin_reset ==
    /\ plugin_steps < MaxPluginSteps
    /\ prop_value' = default_value
    /\ assigned' = FALSE
    /\ plugin_op' = [name |-> "reset", arg |-> NoneValue, outcome |-> "returned None"]
    /\ plugin_steps' = plugin_steps + 1
    /\ UNCHANGED <<batchVars, linkArgs, linkLocals, meshVars, readerVars,
                   cm_object, prop_class, max_length, default_value, hooks>>

NextPlugin == plugin_set \/ plugin_call \/ plugin_reset

SpecPlugin == InitPlugin /\ [][NextPlugin]_vars

\* ------------------------------------------- BaseDataItemBatchReaderMixin
\* The largest batch_size of a reader, the items of all its reads, and its
\* reads.
MaxReaderBatch == 3
MaxElements == 5
MaxReads == 2

\* The n-th element of read r as data_element, line 73: the reader under the
\* mixin returns the element it is given (BaseDataItemReader, line 30).
DataElement(r, n) == <<r, n>>

\* Mutant of HasRoom: one item more is taken.
HasRoom_OneMore(b, bs) == Len(b) <= bs

\* Line 74: len(self._batch) < self._batch_size.
HasRoom(b, bs) == Len(b) < bs

\* A reader with the mixin, made (lines 54-64) and about to read an archive.
InitReader ==
    /\ BatchIdle
    /\ LinkIdle
    /\ MeshIdle
    /\ PluginIdle
    /\ reader_batch_size \in 0..MaxReaderBatch
    /\ reader_batch = <<>>
    /\ extracted = <<0>>
    /\ ready = <<>>
    /\ reader_pc = "reading"

\* on_dataitem_extract, lines 66-78, called by read_archive for the next
\* element of the archive.
on_dataitem_extract ==
    /\ reader_pc = "reading"
    /\ SumSeq(extracted) < MaxElements
    /\ LET r == Len(extracted)
           data_element == DataElement(r, extracted[r] + 1)
       IN  /\ extracted' = [extracted EXCEPT ![r] = @ + 1]
           /\ IF HasRoom(reader_batch, reader_batch_size)
              THEN /\ reader_batch' = Append(reader_batch, data_element)
                   /\ UNCHANGED ready
              ELSE /\ ready' = Append(ready, [read |-> r, by |-> "on_dataitem_extract",
                                              a_batch |-> reader_batch])
                   /\ reader_batch' = <<data_element>>
    /\ UNCHANGED <<batchVars, linkArgs, linkLocals, meshVars, pluginVars,
                   reader_batch_size, reader_pc>>

\* on_end_extract, lines 80-87, called by read_archive after the last element.
on_end_extract ==
    /\ reader_pc = "reading"
    /\ IF Len(reader_batch) > 0
       THEN /\ ready' = Append(ready, [read |-> Len(extracted), by |-> "on_end_extract",
                                       a_batch |-> reader_batch])
            /\ reader_batch' = <<>>
       ELSE UNCHANGED <<ready, reader_batch>>
    /\ reader_pc' = "ended"
    /\ UNCHANGED <<batchVars, linkArgs, linkLocals, meshVars, pluginVars,
                   reader_batch_size, extracted>>

\* read_archive called again on the same reader.
read_archive ==
    /\ reader_pc = "ended"
    /\ Len(extracted) < MaxReads
    /\ extracted' = Append(extracted, 0)
    /\ reader_pc' = "reading"
    /\ UNCHANGED <<batchVars, linkArgs, linkLocals, meshVars, pluginVars,
                   reader_batch_size, reader_batch, ready>>

NextReader == on_dataitem_extract \/ on_end_extract \/ read_archive

SpecReader == InitReader /\ [][NextReader]_vars

\* ------------------------------------------------- claims, OGMTransactionBatch

\* The items the last apply() made durable.
NewlyCommitted == SubSeq(committed, lastCommitted + 1, Len(committed))

ReturnedNormally == lastOp = "apply" /\ outcome = "ok"

\* C1, as stated: after apply() returns normally the buffer is empty and the
\* call committed as many items as were added since the previous apply() call,
\* whichever way that previous call ended.
C1_FlushCountsSincePreviousCall ==
    ReturnedNormally =>
        /\ batch = <<>>
        /\ Len(NewlyCommitted) = lastAdded.sinceCall

\* C1, amended: after apply() returns normally the buffer is empty and the call
\* committed as many items as were added since the previous apply() that
\* returned normally (or since construction): the items a failed apply() left
\* in the buffer are committed with the new ones.
C1_FlushCompleteness ==
    ReturnedNormally =>
        /\ batch = <<>>
        /\ Len(NewlyCommitted) = lastAdded.sinceOk
        /\ NewlyCommitted = lastBatch

\* C1's case: an apply() that returns normally with items held over from an
\* apply() that raised.
C1_Witness ==
    /\ ReturnedNormally
    /\ lastBatch # <<>>
    /\ lastAdded.sinceCall < lastAdded.sinceOk

\* The store calls of a buffer b cut into chunks of bs: chunk c+1 occupies
\* positions c*(bs+2)+1 .. of the log as begin, its items in buffer order, commit.
WellChunked(lg, b, bs) ==
    LET n == Len(b)
        nch == (n + bs - 1) \div bs
    IN  /\ Len(lg) = n + 2 * nch
        /\ \A p \in 1..Len(lg) :
            LET c == (p - 1) \div (bs + 2)
                r == (p - 1) % (bs + 2)
                size == Min(bs, n - c * bs)
            IN  /\ lg[p].chunk = c + 1
                /\ size \in 1..bs
                /\ (c + 1 < nch) => size = bs
                /\ r <= size + 1
                /\ (r = 0) => lg[p].op = "begin"
                /\ (r \in 1..size) => (lg[p].op = "apply" /\ lg[p].item = b[c * bs + r])
                /\ (r = size + 1) => lg[p].op = "commit"

\* C2: with a positive batch_size, apply() cuts the buffer into consecutive
\* chunks in buffer order, all of batch_size items but the last, which holds 1
\* to batch_size; each chunk is one begin, its items, one commit; chunk k is
\* committed before chunk k+1 begins; every buffered item is applied once.
C2_ChunkedInOrder ==
    (ReturnedNormally /\ batch_size > 0 /\ lastBatch # <<>>) =>
        /\ WellChunked(log, lastBatch, batch_size)
        /\ NewlyCommitted = lastBatch

\* C2's case: a buffer that needs a short last chunk after a full one.
C2_Witness ==
    /\ ReturnedNormally
    /\ batch_size = 2
    /\ Len(lastBatch) = 3

StoreFailed == lastOp = "apply" /\ failure.op \in {"begin", "apply", "commit"}

\* C3: when a store call of chunk k raises, apply() raises, chunks 1..k-1 stay
\* committed and no item of chunk k or of a later chunk is committed.
C3_FailureKeepsEarlierChunks ==
    StoreFailed =>
        /\ outcome = "raised"
        /\ NewlyCommitted = SubSeq(lastBatch, 1, (failure.chunk - 1) * batch_size)

\* C3's case: the commit of the second chunk raises after its items were applied.
C3_Witness ==
    /\ StoreFailed
    /\ failure.op = "commit"
    /\ failure.chunk = 2
    /\ Len(lastBatch) > batch_size

\* ------------------------------------------------- claims, link_sets_of_entities

\* The blocking has acted: the state link_block leaves. trimmed_lengths and
\* all_trimmed_items_left are not written again.
Blocked == pc = "loop" /\ k = 0

\* The pass is in its loop or has returned. A store call that raises ends the
\* pass and leaves k, emitted and attempts as they were.
Running == pc \in {"loop", "done"}

Count(seq, x) == Cardinality({i \in 1..Len(seq) : seq[i] = x})

\* C4: for a non-empty LEFT pool and a coverage of 1.0 the blocking accepts
\* every key length present, so that the trimmed LEFT set is the whole LEFT set.
C4_FullCoverageAcceptsAll ==
    (Blocked /\ perc_entries_right = 100) =>
        /\ Range(trimmed_lengths) = {Len(x) : x \in Range(dictLEFT)}
        /\ Len(all_trimmed_items_left) = Len(dictLEFT)

\* The lengths the walk of the claim visits: down the histogram, stopping as
\* soon as the cumulative fraction is >= coverage or the histogram is used up.
ClaimedStop(hist, perc) ==
    LET max_sum == SumSeq([i \in 1..Len(hist) |-> hist[i].count])
        reach == {j \in 1..Len(hist) : CumCount(hist, j - 1) * 100 >= perc * max_sum}
    IN  IF reach = {} THEN Len(hist) ELSE CHOOSE j \in reach : \A i \in reach : j <= i

Coverages == {1, 25, 34, 50, 67, 75, 95, 100}

\* C6: for the same LEFT pool, the lengths accepted for a smaller coverage are
\* among those accepted for a larger one.
C6_BlockingMonotone ==
    Blocked =>
        \A c \in Coverages :
            /\ (c < perc_entries_right =>
                    Range(TrimmedLengths(dictLEFT, c)) \subseteq Range(trimmed_lengths))
            /\ (perc_entries_right < c =>
                    Range(trimmed_lengths) \subseteq Range(TrimmedLengths(dictLEFT, c)))

\* C6's case: a smaller coverage that accepts strictly fewer lengths.
C6_Witness ==
    /\ Blocked
    /\ \E c \in Coverages :
        /\ c < perc_entries_right
        /\ Range(TrimmedLengths(dictLEFT, c)) # Range(trimmed_lengths)
        /\ TrimmedLengths(dictLEFT, c) # <<>>

\* The tokens of RIGHT record r, and what the matcher returns for one of them.
TokensOf(r) == SplitTokens(Standardise(dictRIGHT[r], pre_processing_function))

MatchList(t) == get_close_matches(t, all_trimmed_items_left, comparison_cutoff)

Compared(t) == Len(t) \in Range(trimmed_lengths)

\* C7: for every RIGHT record and every compared token with a non-empty match
\* list, matches[0] alone selects the LEFT group, and exactly one instruction
\* right entity -> left entity, with the run's process_id and the relation
\* label, is emitted for every pair of an entity of the RIGHT record and an
\* entity of LEFT[matches[0]]; a token with no match emits nothing.
C7_OneLinkPerPairOfBestMatch ==
    Running =>
        /\ \A r \in 1..k : \A t \in Range(TokensOf(r)) :
            LET matches == MatchList(t)
                group == IF Compared(t) /\ matches # <<>> THEN {matches[1]} ELSE {}
            IN  \A rc \in 1..rightCols : \A lk \in Range(dictLEFT) : \A lc \in 1..leftCols :
                    Count(emitted,
                          [src |-> [side |-> "R", key |-> dictRIGHT[r], col |-> rc],
                           dst |-> [side |-> "L", key |-> lk, col |-> lc],
                           process_id |-> session_id,
                           rel_label |-> relationship_label,
                           rec |-> r, token |-> t])
                      = IF lk \in group THEN 1 ELSE 0
        /\ \A i \in 1..Len(emitted) :
            /\ emitted[i].rec \in 1..k
            /\ emitted[i].token \in Range(TokensOf(emitted[i].rec))
            /\ emitted[i].src.side = "R" /\ emitted[i].src.key = dictRIGHT[emitted[i].rec]
            /\ emitted[i].dst.side = "L" /\ emitted[i].dst.key \in Range(dictLEFT)
            /\ emitted[i].src.col \in 1..rightCols /\ emitted[i].dst.col \in 1..leftCols
            /\ emitted[i].process_id = session_id
            /\ emitted[i].rel_label = relationship_label

\* C7's case: a token with two matches, linked over two entities on each side.
C7_Witness ==
    /\ Running
    /\ leftCols = 2 /\ rightCols = 2
    /\ \E i \in 1..Len(emitted) : Len(MatchList(emitted[i].token)) >= 2

\* C8: a token that occurs more than once in the split of a RIGHT key is
\* matched once for that record: the tokens to compare are the set of the
\* tokens whose length the blocker accepted.
C8_OneAttemptPerToken ==
    Running =>
        /\ \A r \in 1..k : \A t \in Range(TokensOf(r)) :
            Count(attempts, [rec |-> r, token |-> t]) = IF Compared(t) THEN 1 ELSE 0
        /\ \A i \in 1..Len(attempts) :
            /\ attempts[i].rec \in 1..k
            /\ attempts[i].token \in Range(TokensOf(attempts[i].rec))

\* C8's case: a processed RIGHT key whose split holds a compared token twice.
C8_Witness ==
    /\ Running
    /\ \E i \in 1..Len(attempts) :
        LET toks == TokensOf(attempts[i].rec)
        IN  Cardinality({p \in 1..Len(toks) : toks[p] = attempts[i].token}) >= 2

\* The multiples of the flush period among the record indices 0..n-1.
PeriodicIndexes(n) ==
    [i \in 1..((n + FlushEvery - 1) \div FlushEvery) |-> (i - 1) * FlushEvery]

\* C9: the pass flushes before every RIGHT record whose 0-based index is a
\* multiple of the flush period and once more after the last record; when it
\* returns normally the buffer is empty and every emitted instruction has
\* been committed exactly once.
C9_FlushedPeriodicallyAndAtEnd ==
    /\ pc = "loop" =>
          [i \in 1..Len(flushes) |-> flushes[i].at] = PeriodicIndexes(k)
    /\ pc = "loop" => \A i \in 1..Len(flushes) : ~flushes[i].final
    /\ pc = "done" =>
          /\ [i \in 1..Len(flushes) |-> flushes[i].at]
                 = PeriodicIndexes(Len(dictRIGHT)) \o <<Len(dictRIGHT)>>
          /\ \A i \in 1..Len(flushes) : flushes[i].final <=> i = Len(flushes)
          /\ batch = <<>>
          /\ Len(committed) = Len(emitted)
          /\ \A i \in 1..Len(emitted) : Count(committed, emitted[i]) = 1

\* C9's case: a pass that returned after a periodic flush and the final flush
\* both found instructions in the buffer.
C9_Witness ==
    /\ pc = "done"
    /\ \E i \in 1..Len(flushes) : ~flushes[i].final /\ flushes[i].size > 0
    /\ \E i \in 1..Len(flushes) : flushes[i].final /\ flushes[i].size > 0

\* C10: a pass whose LEFT set or whose RIGHT set is empty raises nothing and
\* emits no instruction.
C10_EmptySetsLinkNothing ==
    (dictLEFT = <<>> \/ dictRIGHT = <<>>) => (pc # "raised" /\ emitted = <<>>)

\* The tunables the claim calls valid: a cutoff in [0,1], a coverage in (0,1].
TunablesInRange ==
    /\ 0 <= comparison_cutoff /\ comparison_cutoff <= 100
    /\ 0 < perc_entries_right /\ perc_entries_right <= 100

\* C11: a pass called with a cutoff outside [0,1] or a coverage outside (0,1]
\* fails with a configuration error before any query is sent and before any
\* edge is committed: it never gets to its loop, never returns normally, and
\* what it raises is the configuration error.
C11_BadTunablesFailBeforeIO ==
    ~TunablesInRange =>
        /\ pc \in {"query", "raised"}
        /\ (pc = "raised" => link_error = "ConfigurationError")
        /\ committed = <<>>

\* A RIGHT record whose split holds a token that is a LEFT key.
HoldsLeftKey(r) == Range(TokensOf(r)) \cap Range(dictLEFT) # {}

\* C12: in a pass that returns, with a cutoff of 0.8 and the default coverage,
\* a RIGHT token equal to a LEFT key is linked to that key's entities, also
\* when all LEFT keys have one length; one LEFT key, one RIGHT record and one
\* node on either side give exactly one instruction, affiliation -> country.
C12_EqualTokenIsLinked ==
    (pc = "done" /\ comparison_cutoff = 80 /\ perc_entries_right = 95) =>
        /\ \A r \in 1..Len(dictRIGHT) :
               \A t \in Range(TokensOf(r)) \cap Range(dictLEFT) :
                   \E i \in 1..Len(committed) :
                       /\ committed[i].rec = r
                       /\ committed[i].src.key = dictRIGHT[r]
                       /\ committed[i].dst.key = t
        /\ (/\ Len(dictLEFT) = 1 /\ Len(dictRIGHT) = 1
            /\ leftCols = 1 /\ rightCols = 1
            /\ HoldsLeftKey(1)) => Len(committed) = 1

\* ------------------------------------------------- claims, the temporal merge

\* DUI d is in the i-th snapshot folded.
Present(d, i) == d \in DOMAIN ingested[i]

\* The i-th snapshot adds d: it holds d and the snapshot before it does not.
AddedAt(d, i) == Present(d, i) /\ (i > 1 => ~Present(d, i - 1))

\* d is in every snapshot from the i-th to the last one folded.
PresentSince(d, i) == \A x \in i..file_index : Present(d, x)

\* The i-th snapshot lists tree number tn under d.
Holds(d, tn, i) == tn \in ingested[i][d].TreeNumberList

\* C13: a DUI first seen in the snapshot of year Y, and present with the same
\* name and tree numbers in every later snapshot, has ValidFromTo = {from: Y,
\* to: null}, the one alias (name, {from: Y, to: null}) and a TreeNumberHistory
\* that maps each of its tree numbers to [{from: Y, to: null}], however many
\* snapshots followed.
C13_AddedThenUnchanged ==
    \A d \in DUIs : \A i \in 1..file_index :
        (/\ Present(d, i)
         /\ \A x \in 1..(i - 1) : ~Present(d, x)
         /\ \A x \in i..file_index : Present(d, x) /\ ingested[x][d] = ingested[i][d])
        => LET rec == current_master_tree[d]
               open == [from |-> xml_input_files[i], to |-> None]
           IN  /\ rec.ValidFromTo = open
               /\ rec.Aliases = <<<<ingested[i][d].DescriptorName, open>>>>
               /\ DOMAIN rec.TreeNumberHistory = ingested[i][d].TreeNumberList
               /\ \A tn \in DOMAIN rec.TreeNumberHistory :
                      rec.TreeNumberHistory[tn] = <<open>>

\* C13's case: a DUI with tree numbers, first seen in the second snapshot and
\* unchanged in the snapshot after it, while the other DUI comes and goes.
C13_Witness ==
    /\ file_index = 3
    /\ ~Present("D1", 1) /\ Present("D1", 2) /\ Present("D1", 3)
    /\ ingested[2]["D1"] = ingested[3]["D1"]
    /\ ingested[2]["D1"].TreeNumberList # {}
    /\ Present("D2", 2) /\ ~Present("D2", 3)

\* C14: a DUI that was in a snapshot and is in none of those after it has
\* ValidFromTo.to = the year of the last snapshot that held it, the one folded
\* just before the snapshot that withdrew it, whatever the gap between the years.
C14_WithdrawnAtPrecedingSnapshot ==
    \A d \in DUIs : \A i \in 2..file_index :
        (Present(d, i - 1) /\ \A x \in i..file_index : ~Present(d, x))
        => current_master_tree[d].ValidFromTo.to = xml_input_files[i - 1]

\* C14's case: a DUI withdrawn by a snapshot whose year is not the year after
\* that of the snapshot before it.
C14_Witness ==
    \E d \in DUIs : \E i \in 2..file_index :
        /\ Present(d, i - 1)
        /\ \A x \in i..file_index : ~Present(d, x)
        /\ xml_input_files[i] - 1 # xml_input_files[i - 1]
        /\ i < file_index

\* C15: folding a snapshot that holds a DUI the snapshot before it held under
\* another name closes the last alias, which is open, at the year of the
\* snapshot before and appends (new name, {from: year, to: null}); under the
\* same name, the alias list stays as it is.
C15_RenameClosesAndAppends ==
    [][(mesh_pc = "fold" /\ file_index' = file_index + 1) =>
        \A d \in (DOMAIN previous_year) \cap (DOMAIN previous_year') :
            LET old == current_master_tree[d].Aliases
                new == current_master_tree'[d].Aliases
                new_name == previous_year'[d].DescriptorName
            IN  IF new_name # previous_year[d].DescriptorName
                THEN /\ old[Len(old)][2].to = None
                     /\ Len(new) = Len(old) + 1
                     /\ SubSeq(new, 1, Len(old) - 1) = SubSeq(old, 1, Len(old) - 1)
                     /\ new[Len(old)] =
                            <<old[Len(old)][1],
                              [from |-> old[Len(old)][2].from,
                               to |-> xml_input_files[file_index]]>>
                     /\ new[Len(new)] =
                            <<new_name,
                              [from |-> xml_input_files[file_index'], to |-> None]>>
                ELSE new = old]_vars

\* C15's case: the snapshot folded last renamed a DUI that had been renamed
\* before, after a gap in the years.
C15_Witness ==
    /\ file_index = 3
    /\ PresentSince("D1", 1)
    /\ ingested[1]["D1"].DescriptorName # ingested[2]["D1"].DescriptorName
    /\ ingested[2]["D1"].DescriptorName # ingested[3]["D1"].DescriptorName
    /\ xml_input_files[3] > xml_input_files[2] + 1

\* C16, as stated: a tree number a DUI holds in the snapshot of Y1 that adds
\* it, does not hold in the next snapshot, of Y2, and holds again in the one
\* after, of Y3, has the intervals [{from: Y1, to: Y2}, {from: Y3, to: null}].
C16_RebranchClosedAtRemovalYear ==
    \A d \in DUIs : \A tn \in {TreeA, TreeA100, TreeB} :
        (/\ file_index >= 3
         /\ AddedAt(d, file_index - 2) /\ PresentSince(d, file_index - 2)
         /\ Holds(d, tn, file_index - 2)
         /\ ~Holds(d, tn, file_index - 1)
         /\ Holds(d, tn, file_index))
        => current_master_tree[d].TreeNumberHistory[tn] =
              <<[from |-> xml_input_files[file_index - 2],
                 to |-> xml_input_files[file_index - 1]],
                [from |-> xml_input_files[file_index], to |-> None]>>

\* C16, amended: a tree number first assigned to a DUI by the i-th snapshot,
\* held up to the snapshot before the j-th, not held from the j-th on and
\* assigned again by the snapshot folded last, the DUI being in all of them,
\* has two intervals: the first from the year of the i-th snapshot to the year
\* of the last snapshot that held it (the one before the j-th), the second
\* open from the year of the last snapshot.
C16_RebranchClosedAtLastYearHeld ==
    \A d \in DUIs : \A tn \in {TreeA, TreeA100, TreeB} :
        \A a \in 1..file_index : \A i \in a..file_index : \A j \in (i + 1)..(file_index - 1) :
            (/\ AddedAt(d, a) /\ PresentSince(d, a)
             /\ \A x \in a..(i - 1) : ~Holds(d, tn, x)
             /\ \A x \in i..(j - 1) : Holds(d, tn, x)
             /\ \A x \in j..(file_index - 1) : ~Holds(d, tn, x)
             /\ Holds(d, tn, file_index))
            => current_master_tree[d].TreeNumberHistory[tn] =
                  <<[from |-> xml_input_files[i], to |-> xml_input_files[j - 1]],
                    [from |-> xml_input_files[file_index], to |-> None]>>

\* C16's case: assigned by the first snapshot, removed by the second and
\* reassigned by the third, the years apart.
C16_Witness ==
    /\ file_index = 3
    /\ PresentSince("D1", 1)
    /\ Holds("D1", TreeA100, 1) /\ ~Holds("D1", TreeA100, 2) /\ Holds("D1", TreeA100, 3)
    /\ xml_input_files[2] > xml_input_files[1] + 1
    /\ Len(current_master_tree["D1"].TreeNumberHistory[TreeA100]) = 2

\* C17: in every master tree the fold builds, the intervals of a tree number
\* of a DUI hold at most one with to = null, and it is the last: an interval
\* is appended only after those before it were closed.
C17_AtMostOneOpenInterval ==
    \A d \in DOMAIN current_master_tree :
        \A tn \in DOMAIN current_master_tree[d].TreeNumberHistory :
            LET history == current_master_tree[d].TreeNumberHistory[tn]
            IN  /\ Cardinality(OpenIndexes(history)) <= 1
                /\ \A i \in 1..(Len(history) - 1) : history[i].to # None

\* C17's case: a tree number that was removed and then re-branched.
C17_Witness ==
    \E d \in DOMAIN current_master_tree :
        \E tn \in DOMAIN current_master_tree[d].TreeNumberHistory :
            LET history == current_master_tree[d].TreeNumberHistory[tn]
            IN  Len(history) = 2 /\ OpenIndexes(history) = {2}

\* C18: in every master tree the fold builds, every DUI has aliases, the last
\* with to = null and all before it with to # null.
C18_LastAliasOpen ==
    \A d \in DOMAIN current_master_tree :
        LET aliases == current_master_tree[d].Aliases
        IN  /\ aliases # <<>>
            /\ aliases[Len(aliases)][2].to = None
            /\ \A i \in 1..(Len(aliases) - 1) : aliases[i][2].to # None

\* C18's case: a DUI renamed twice, and a DUI that was withdrawn.
C18_Witness ==
    /\ \E d \in DOMAIN current_master_tree : Len(current_master_tree[d].Aliases) = 3
    /\ \E d \in DOMAIN current_master_tree : current_master_tree[d].ValidFromTo.to # None

\* When the fold comes to remove a tree number from a DUI (the snapshot folded
\* last listed it, the next one does not), its intervals hold exactly one open
\* one; and no fold raises.
RemovalFindsOneOpen ==
    /\ mesh_pc # "raised"
    /\ \A d \in DOMAIN previous_year : \A tn \in previous_year[d].TreeNumberList :
        /\ tn \in DOMAIN current_master_tree[d].TreeNumberHistory
        /\ Cardinality(OpenIndexes(current_master_tree[d].TreeNumberHistory[tn])) = 1

\* ------------------------------------------------------ claims, the MeSH commit

\* A store call that writes: an upsert, or a relationship of a batch.
IsWrite(c) == c.op \in {"create_or_update", "apply"}

\* What an earlier import left and the deletes are meant to remove.
OldAliasNodes == {n \in store_nodes : n.label = "PubmedMeSHTermAlias" /\ n.run = "old"}
OldSpecialisationEdges ==
    {e \in store_edges : e.type = SpecialisationRelType /\ e.run = "old"}

\* C20: in on_end_extract, once any DUI node upsert, alias node upsert, alias
\* edge or specialisation edge has been written, the deletion of all existing
\* alias nodes and of all existing specialisation edges has run to completion:
\* both delete queries have returned and the store holds no alias node and no
\* specialisation edge of an earlier import.
C20_DeletionCompleteBeforeWrites ==
    (\E c \in 1..Len(store_calls) : IsWrite(store_calls[c])) =>
        /\ Len(store_calls) >= 2
        /\ store_calls[1] = NodeCalls[1]
        /\ store_calls[2] = NodeCalls[2]
        /\ OldAliasNodes = {}
        /\ OldSpecialisationEdges = {}

\* The two delete queries are the first two store calls of on_end_extract and
\* have returned before any write; the alias nodes of an earlier import are
\* gone by then.
DeleteQueriesReturnFirst ==
    (\E c \in 1..Len(store_calls) : IsWrite(store_calls[c])) =>
        /\ Len(store_calls) >= 2
        /\ store_calls[1] = NodeCalls[1]
        /\ store_calls[2] = NodeCalls[2]
        /\ \A c \in 3..Len(store_calls) : store_calls[c].op # "cypher_query"
        /\ OldAliasNodes = {}

\* The store after a commit over an earlier import's store: a specialisation
\* edge of the earlier import is still there.
OldEdgeSurvivesCommit ==
    /\ commit_pc = "done"
    /\ OldSpecialisationEdges # {}
    /\ \E e \in store_edges : e.type = SpecialisationRelType /\ e.run = "new"

\* The relationships of batch what handed to the store so far, in order.
Emitted(what) ==
    SelectSeq(store_calls, LAMBDA c : c.op = "apply" /\ c.what = what)

\* The DUIs whose intervals for tree number parent hold one that contains the
\* interval iv, an open end standing for the year after the current one.
ContainingHolders(tree, parent, iv) ==
    {p \in DOMAIN tree :
        /\ parent \in DOMAIN tree[p].TreeNumberHistory
        /\ \E g \in 1..Len(tree[p].TreeNumberHistory[parent]) :
              LET pv == tree[p].TreeNumberHistory[parent][g]
              IN  /\ iv.from >= pv.from
                  /\ (IF iv.to = None THEN MaxYear + 1 ELSE iv.to)
                       <= (IF pv.to = None THEN MaxYear + 1 ELSE pv.to)}

\* C21: when on_end_extract has returned, for each DUI and each interval of
\* each of its tree numbers: a tree number of one segment (no parent) has no
\* specialisation edge; any other has one edge, carrying the tree number and
\* the interval's bounds, to each DUI that holds the parent tree number over an
\* interval containing this one, and to no other; and no other specialisation
\* edge was emitted.
C21_EdgesToContainingParents ==
    commit_pc = "done" =>
        LET tree == current_master_tree
            edges == Emitted("specialisation_of")
            Of(d, tn, iv) ==
                {c \in 1..Len(edges) :
                    /\ edges[c].item.src = d
                    /\ edges[c].item.tree_number = tn
                    /\ edges[c].item.valid_from = iv.from
                    /\ edges[c].item.valid_to = (IF iv.to = None THEN MaxYear + 1 ELSE iv.to)}
        IN  /\ \A d \in DOMAIN tree : \A tn \in DOMAIN tree[d].TreeNumberHistory :
                \A h \in 1..Len(tree[d].TreeNumberHistory[tn]) :
                    LET iv == tree[d].TreeNumberHistory[tn][h]
                    IN  IF Len(tn) = 1
                        THEN Of(d, tn, iv) = {}
                        ELSE /\ {edges[c].item.dst : c \in Of(d, tn, iv)}
                                  = ContainingHolders(tree, SubSeq(tn, 1, Len(tn) - 1), iv)
                             /\ Cardinality(Of(d, tn, iv))
                                  = Cardinality(ContainingHolders(tree, SubSeq(tn, 1, Len(tn) - 1), iv))
            /\ \A c \in 1..Len(edges) :
                /\ edges[c].item.type = SpecialisationRelType
                /\ edges[c].item.src \in DOMAIN tree
                /\ edges[c].item.tree_number \in DOMAIN tree[edges[c].item.src].TreeNumberHistory
                /\ \E h \in 1..Len(tree[edges[c].item.src].TreeNumberHistory[edges[c].item.tree_number]) :
                      c \in Of(edges[c].item.src, edges[c].item.tree_number,
                               tree[edges[c].item.src].TreeNumberHistory[edges[c].item.tree_number][h])

\* C21's case: a commit that returned, with an edge from D1 to D2 for the
\* interval of A01.100 that D2's A01 contains, and a root tree number of D1.
C21_Witness ==
    /\ commit_pc = "done"
    /\ \E c \in 1..Len(Emitted("specialisation_of")) :
          /\ Emitted("specialisation_of")[c].item.src = "D1"
          /\ Emitted("specialisation_of")[c].item.dst = "D2"
    /\ TreeB \in DOMAIN current_master_tree["D1"].TreeNumberHistory

\* A commit that returned with no edge for an interval of A01.100, D2 holding
\* A01 over an interval that does not contain it.
ParentHeldTooLate ==
    /\ commit_pc = "done"
    /\ DOMAIN current_master_tree = {"D1", "D2"}
    /\ TreeA \in DOMAIN current_master_tree["D2"].TreeNumberHistory
    /\ TreeA100 \in DOMAIN current_master_tree["D1"].TreeNumberHistory
    /\ Emitted("specialisation_of") = <<>>

\* ------------------------------------------- claims, OGMTransactionBatchAsync

\* C22: an apply() of an OGMTransactionBatchAsync in which no store call raises
\* does what apply() of an OGMTransactionBatch does on the same buffer: the
\* same outcome (no error on an empty buffer), the same store calls in the
\* same chunks, the same items committed, and an empty buffer afterwards.
C22_AsyncAsSync ==
    (lastOp = "apply_async" /\ failure.op \notin {"begin", "apply", "commit"}) =>
        LET r == ApplyResult(lastBatch, batch_size, SubSeq(committed, 1, lastCommitted), 0)
        IN  /\ outcome = r.outcome
            /\ log = r.log
            /\ committed = r.committed
            /\ batch = r.batch

\* Whenever an OGMTransactionBatchAsync.apply() returns, it made the store
\* calls apply() of an OGMTransactionBatch makes on the same buffer, and
\* committed the same items.
AsyncSameChunks ==
    (lastOp = "apply_async" /\ outcome = "ok") =>
        LET r == ApplyResult(lastBatch, batch_size, SubSeq(committed, 1, lastCommitted), 0)
        IN  log = r.log /\ committed = r.committed

\* ---------------------------------------------------------- claims, plugins

\* C23: a call of a plugin whose property has no default raises ValueError and
\* runs no process hook when no value has been assigned to the property since
\* the plugin was made or reset, and runs on_before_process, on_process,
\* on_after_process in that order and returns None when a valid value has
\* been assigned since.
C23_MandatoryPropertyGuardsCall ==
    (plugin_op.name = "call" /\ default_value = NoneValue) =>
        IF assigned
        THEN /\ plugin_op.outcome = "returned None"
             /\ hooks = <<"on_before_process", "on_process", "on_after_process">>
        ELSE /\ plugin_op.outcome = "ValueError"
             /\ hooks = <<>>

\* C23 for a plugin that was given a Citehound manager and whose property is a
\* PluginPropertyInt or a PluginPropertyString.
MandatoryPropertyGuardsCallWithManager ==
    (/\ plugin_op.name = "call" /\ default_value = NoneValue
     /\ cm_object = "CM" /\ prop_class # "PluginPropertyFSPath") =>
        IF assigned
        THEN /\ plugin_op.outcome = "returned None"
             /\ hooks = <<"on_before_process", "on_process", "on_after_process">>
        ELSE /\ plugin_op.outcome = "ValueError"
             /\ hooks = <<>>

\* C24: assigning a string to a PluginPropertyString with max_length = N
\* stores it when it has at most N characters and raises ValueError when it
\* has more.
C24_MaxLengthInclusive ==
    (/\ plugin_op.name = "set" /\ prop_class = "PluginPropertyString"
     /\ max_length # NoMaxLength /\ plugin_op.arg.t = "str") =>
        IF plugin_op.arg.n <= max_length
        THEN plugin_op.outcome = "stored" /\ prop_value = plugin_op.arg
        ELSE plugin_op.outcome = "ValueError"

\* What PluginPropertyString does: it stores a string of fewer than N
\* characters and raises ValueError for one of N characters or more.
MaxLengthExclusive ==
    (/\ plugin_op.name = "set" /\ prop_class = "PluginPropertyString"
     /\ max_length # NoMaxLength /\ plugin_op.arg.t = "str") =>
        IF plugin_op.arg.n < max_length
        THEN plugin_op.outcome = "stored" /\ prop_value = plugin_op.arg
        ELSE plugin_op.outcome = "ValueError"

\* ------------------------------------- claims, BaseDataItemBatchReaderMixin

\* The on_batch_ready calls of read r, in order.
ReadyOf(r) == SelectSeq(ready, LAMBDA c : c.read = r)

\* C25: with a positive batch_size, in every read of an archive the batches
\* passed to on_batch_ready so far, followed by the internal batch while the
\* read is under way, are the items extracted so far, each once and in
\* extraction order; every batch passed holds between 1 and batch_size items,
\* the ones on_dataitem_extract passes exactly batch_size; and when
\* on_end_extract has run, it has passed the remainder if there was one, as the
\* last call of the read, and the internal batch is empty.
C25_EveryItemOnceInOrder ==
    reader_batch_size > 0 =>
        \A r \in 1..Len(extracted) :
            LET calls == ReadyOf(r)
                under_way == r = Len(extracted) /\ reader_pc = "reading"
                passed == Flatten([c \in 1..Len(calls) |-> calls[c].a_batch])
            IN  /\ passed \o (IF under_way THEN reader_batch ELSE <<>>)
                     = [n \in 1..extracted[r] |-> DataElement(r, n)]
                /\ \A c \in 1..Len(calls) :
                      /\ Len(calls[c].a_batch) \in 1..reader_batch_size
                      /\ calls[c].by = "on_dataitem_extract"
                            => Len(calls[c].a_batch) = reader_batch_size
                      /\ calls[c].by = "on_end_extract" => c = Len(calls)
                /\ ~under_way =>
                      /\ (r = Len(extracted) => reader_batch = <<>>)
                      /\ (extracted[r] > 0 =>
                              /\ calls # <<>>
                              /\ calls[Len(calls)].by = "on_end_extract")

\* C25's case: a second read that ended after a first one, each with full
\* batches passed by on_dataitem_extract and a remainder passed by
\* on_end_extract.
C25_Witness ==
    /\ reader_batch_size = 2
    /\ extracted = <<3, 2>>
    /\ reader_pc = "ended"
    /\ Len(ready) = 3
    /\ ready[1].by = "on_dataitem_extract"

\* ------------------------------------------ claims, apply() after a failure

\* s begins with p.
StartsWith(s, p) == Len(p) <= Len(s) /\ SubSeq(s, 1, Len(p)) = p

\* The items of the apply calls of a log, in order.
AppliedBy(ops) ==
    LET calls == SelectSeq(ops, LAMBDA c : c.op = "apply")
    IN  [c \in 1..Len(calls) |-> calls[c].item]

\* C26: an apply() in which a store call of chunk k raised leaves the buffer
\* as it was when the call was entered; the buffer the next apply() works on
\* therefore begins with those items, among them the items of chunks 1..k-1,
\* which are committed already, and the next apply() applies them again, from
\* the first on: when it returns normally each of them is committed a second
\* time.
C26_FailedApplyKeepsCommittedItems ==
    [][(/\ lastOp = "apply" /\ outcome = "raised" /\ failure.chunk >= 1
           => batch = lastBatch)
       /\ (/\ outcome = "raised" /\ failure.chunk >= 1
           /\ lastOp' = "apply" /\ applies' = applies + 1)
           => LET again == SubSeq(lastBatch, 1, (failure.chunk - 1) * batch_size)
              IN  /\ StartsWith(batch, lastBatch)
                  /\ SubSeq(committed, lastCommitted + 1, Len(committed)) = again
                  /\ StartsWith(batch, AppliedBy(log'))
                  /\ outcome' = "ok" =>
                        /\ StartsWith(AppliedBy(log'), again)
                        /\ committed' = committed \o batch]_vars

\* C26's case: an apply() that returned normally after one that had raised in
\* its second chunk or later: items are committed twice.
C26_Witness ==
    /\ lastOp = "apply"
    /\ outcome = "ok"
    /\ \E i, j \in 1..Len(committed) : i < j /\ committed[i] = committed[j]

\* ---- claims, DUIs that come back and DUIs that go ----

\* d was in a snapshot before the i-th, is not in the one just before the
\* i-th, and is in the i-th.
Reappears(d, i) ==
    /\ i > 2
    /\ Present(d, i)
    /\ ~Present(d, i - 1)
    /\ \E x \in 1..(i - 2) : Present(d, x)

\* Every interval of the record rec.
IntervalsOf(rec) ==
    {rec.ValidFromTo}
    \cup {rec.Aliases[x][2] : x \in 1..Len(rec.Aliases)}
    \cup UNION {{rec.TreeNumberHistory[tn][x] : x \in 1..Len(rec.TreeNumberHistory[tn])}
               : tn \in DOMAIN rec.TreeNumberHistory}

\* C27: a DUI that was withdrawn and reappears in the snapshot of year Y is a
\* fresh addition. Right after that snapshot its record is the new one:
\* ValidFromTo = {from: Y, to: null}, the one alias (name, {from: Y, to: null})
\* and a history that maps each tree number of the snapshot, and no other, to
\* [{from: Y, to: null}]; while it stays, no interval of its record starts
\* before Y: the earlier validity, aliases and history are gone.
C27_ReaddedIsFresh ==
    \A d \in DUIs : \A i \in 1..file_index :
        (Reappears(d, i) /\ PresentSince(d, i))
        => LET rec == current_master_tree[d]
               open == [from |-> xml_input_files[i], to |-> None]
           IN  /\ rec.ValidFromTo = open
               /\ rec.Aliases[1][2].from = xml_input_files[i]
               /\ \A iv \in IntervalsOf(rec) : iv.from >= xml_input_files[i]
               /\ i = file_index =>
                    /\ rec.Aliases = <<<<ingested[i][d].DescriptorName, open>>>>
                    /\ DOMAIN rec.TreeNumberHistory = ingested[i][d].TreeNumberList
                    /\ \A tn \in DOMAIN rec.TreeNumberHistory :
                           rec.TreeNumberHistory[tn] = <<open>>

\* C27's case: a DUI held under one name and one tree number, withdrawn by the
\* second snapshot, and back in the third under another name and another tree
\* number.
C27_Witness ==
    /\ file_index = 3
    /\ mesh_pc = "fold"
    /\ Reappears("D1", 3)
    /\ ingested[1]["D1"].DescriptorName # ingested[3]["D1"].DescriptorName
    /\ ingested[1]["D1"].TreeNumberList = {TreeB}
    /\ ingested[3]["D1"].TreeNumberList = {TreeA100}
    /\ TreeB \notin DOMAIN current_master_tree["D1"].TreeNumberHistory

\* The step folds one more snapshot into the master tree.
FoldsSnapshot == file_index' = file_index + 1

\* The snapshot the step folds withdraws d: the snapshot before holds d and
\* this one does not.
WithdrawnByStep(d) ==
    /\ file_index >= 1
    /\ Present(d, file_index)
    /\ d \notin DOMAIN ingested'[file_index']

\* The snapshot the step folds neither adds, withdraws nor changes d: both
\* snapshots lack d, or both hold it and say the same of it.
UntouchedByStep(d) ==
    /\ file_index >= 1
    /\ IF Present(d, file_index)
       THEN /\ d \in DOMAIN ingested'[file_index']
            /\ ingested'[file_index'][d] = ingested[file_index][d]
       ELSE d \notin DOMAIN ingested'[file_index']

\* rec has an alias interval with no end and, provided it lists a tree number,
\* an interval with no end under each tree number it lists.
KeepsOpenIntervals(rec) ==
    /\ rec.Aliases[Len(rec.Aliases)][2].to = None
    /\ \A tn \in rec.TreeNumberList :
           \E x \in 1..Len(rec.TreeNumberHistory[tn]) :
               rec.TreeNumberHistory[tn][x].to = None

\* C28: the snapshot that withdraws a DUI changes ValidFromTo.to of its record
\* and nothing else: name, tree numbers, ValidFromTo.from, the alias list and
\* the TreeNumberHistory stay as they were, so the withdrawn DUI keeps an
\* alias interval and tree-number intervals with to = null; and the record of
\* a DUI the snapshot neither adds, withdraws nor changes stays as it was.
C28_WithdrawalTouchesValidToOnly ==
    [][FoldsSnapshot =>
         \A d \in DOMAIN current_master_tree :
            /\ WithdrawnByStep(d) =>
                 /\ [current_master_tree'[d] EXCEPT !.ValidFromTo.to = None]
                      = [current_master_tree[d] EXCEPT !.ValidFromTo.to = None]
                 /\ current_master_tree'[d].ValidFromTo.to # None
                 /\ KeepsOpenIntervals(current_master_tree'[d])
            /\ UntouchedByStep(d) => current_master_tree'[d] = current_master_tree[d]]_vars

\* C28's case: the third snapshot has withdrawn a DUI that had been renamed and
\* held a tree number, and has left alone the other DUI, which the second
\* snapshot had withdrawn.
C28_Witness ==
    /\ file_index = 3
    /\ Present("D1", 1) /\ Present("D1", 2) /\ ~Present("D1", 3)
    /\ ingested[1]["D1"].DescriptorName # ingested[2]["D1"].DescriptorName
    /\ ingested[2]["D1"].TreeNumberList # {}
    /\ Present("D2", 1) /\ ~Present("D2", 2) /\ ~Present("D2", 3)
    /\ KeepsOpenIntervals(current_master_tree["D1"])
    /\ current_master_tree["D1"].ValidFromTo.to # None

\* ---- claims, the intervals of the master tree ----

\* A closed interval does not end before it starts.
WellFormed(iv) == iv.to # None => iv.from <= iv.to

\* The intervals of a list are in ascending order of from and pairwise
\* disjoint: each one that has a successor is closed and ends before the
\* successor starts.
AscendingDisjoint(ivs) ==
    \A x, y \in 1..Len(ivs) :
        x < y => /\ ivs[x].to # None
                 /\ ivs[x].to < ivs[y].from

\* The intervals of the alias list, in its order.
AliasIntervals(rec) == [x \in 1..Len(rec.Aliases) |-> rec.Aliases[x][2]]

\* C30: with the files in strictly ascending order of year, every closed
\* interval of the master tree (ValidFromTo, alias intervals, tree-number
\* intervals) has from <= to, and for each DUI the alias intervals, and the
\* intervals of each tree number, are in ascending order of from and pairwise
\* disjoint, each closed one ending before the next one starts.
C30_IntervalsOrderedAndDisjoint ==
    \A d \in DOMAIN current_master_tree :
        LET rec == current_master_tree[d]
        IN  /\ \A iv \in IntervalsOf(rec) : WellFormed(iv)
            /\ AscendingDisjoint(AliasIntervals(rec))
            /\ \A tn \in DOMAIN rec.TreeNumberHistory :
                   AscendingDisjoint(rec.TreeNumberHistory[tn])

\* C30's case: after three snapshots whose years are not consecutive, a DUI
\* that was renamed has two alias intervals and a tree number it lost and got
\* back has two intervals, while the other DUI was withdrawn.
C30_Witness ==
    /\ file_index = 3
    /\ \E x \in 2..3 : xml_input_files[x] - 1 # xml_input_files[x - 1]
    /\ "D1" \in DOMAIN current_master_tree
    /\ Len(current_master_tree["D1"].Aliases) >= 2
    /\ \E tn \in DOMAIN current_master_tree["D1"].TreeNumberHistory :
           Len(current_master_tree["D1"].TreeNumberHistory[tn]) = 2
    /\ "D2" \in DOMAIN current_master_tree
    /\ current_master_tree["D2"].ValidFromTo.to # None

\* ---- claims, one edge per pair of entities ----

\* Instructions i and j of the pass link the same right entity to the same
\* left entity.
SamePair(i, j) ==
    /\ emitted[i].src = emitted[j].src
    /\ emitted[i].dst = emitted[j].dst

\* C29: within one pass at most one instruction is emitted for a pair (right
\* entity, left entity), also when two different tokens of one RIGHT key both
\* have the same LEFT key as their best match.
C29_OneLinkPerPair ==
    \A i, j \in 1..Len(emitted) : (i # j) => ~SamePair(i, j)

\* What the pass does keep: two instructions for one pair never come from the
\* same token of the same RIGHT record.
OneLinkPerPairAndToken ==
    \A i, j \in 1..Len(emitted) :
        (i # j /\ SamePair(i, j)) =>
            /\ emitted[i].rec = emitted[j].rec
            /\ emitted[i].token # emitted[j].token

\* The pass has returned with two instructions for one pair, both in the
\* store.
PairLinkedTwice ==
    /\ pc = "done"
    /\ \E i, j \in 1..Len(emitted) : i # j /\ SamePair(i, j)
    /\ Len(committed) = Len(emitted)

====
